---- MODULE Spec2Model ----
(***************************************************************************)
(* Constellation satellite runtime: the CHIRP broadcaster                  *)
(* (core/broadcastmanager.py) and the CSCP command receiver                *)
(* (core/commandmanager.py, cscp.py), as state machines.                   *)
(*                                                                         *)
(* Threads are modelled one statement group at a time, so that every       *)
(* interleaving Python's scheduler can produce between the CHIRP listener  *)
(* thread and a thread calling register_request is a behaviour.            *)
(***************************************************************************)
EXTENDS Integers, Sequences, FiniteSets, TLC

\* ------------------------------------------------------------------ bounds
\* The task queue (queue.Queue) and the service cache (a list) are unbounded
\* in the code; the model stops producers at these sizes.
MaxQueue == 1
MaxDiscovered == 2

\* ------------------------------------------------------- CHIRP input sets
Services == {"CONTROL", "HEARTBEAT"}
Addresses == {"addr1", "addr2"}
Callbacks == {"cbOld", "cbNew"}
NoCallback == "none"

\* The CHIRPMessages _run receives from the beacon: three peers' services,
\* uuidA's CONTROL service seen from two addresses. REQUEST carries port 0.
Msg(host_uuid, serviceid, msgtype, port, from_address) ==
    [host_uuid |-> host_uuid, serviceid |-> serviceid, msgtype |-> msgtype,
     port |-> port, from_address |-> from_address]

OfferMessages ==
    { Msg("uuidA", "CONTROL", "OFFER", 23999, a) : a \in Addresses }
    \cup { Msg("uuidB", "CONTROL", "OFFER", 23999, "addr1"),
           Msg("uuidA", "HEARTBEAT", "OFFER", 23999, "addr1") }

DepartMessages ==
    { Msg("uuidA", "CONTROL", "DEPART", 23999, "addr1"),
      Msg("uuidB", "CONTROL", "DEPART", 23999, "addr1"),
      Msg("uuidA", "HEARTBEAT", "DEPART", 23999, "addr1"),
      Msg("uuidA", "CONTROL", "DEPART", 0, "addr1") }

RequestMessages ==
    { Msg("uuidB", s, "REQUEST", 0, "addr1") : s \in Services }

CHIRPMessages == OfferMessages \cup DepartMessages \cup RequestMessages

NoMsg == [msgtype |-> "none"]

VARIABLES
    \* --- CHIRPBroadcaster
    discovered_services,   \* list[DiscoveredService]
    chirp_callbacks,       \* serviceid -> callback (NoCallback: key absent)
    registered_services,   \* the set of <<port, serviceid>> offers
    h_alive,               \* the identities whose callback task put last had alive = True
    beacon_out,            \* what the last broadcast_offers call sent
    task_queue,            \* FIFO of (callback, [service])
    \* --- the CHIRP listener thread (_run): position, message, local callback
    l_pc, l_msg, l_cb,
    \* --- a thread inside register_request: position, arguments, the
    \*     iterator index and result of get_discovered, the put loop's index
    r_pc, r_sid, r_cb, r_i, r_res, r_j,
    r_clean,               \* history: no message was taken during the call
    \* --- CommandReceiver: the class the satellite is an instance of
    methods,               \* names of its methods marked @cscp_requestable
    gates,                 \* the names X for which it defines _X_is_allowed
    cmds,                  \* self._cmds: the keys of the command registry
    \* --- the last pass of the _recv_cmds loop
    c_wire,                \* the command name as the peer sent it
    c_req,                 \* the CSCPMessage get_message returned
    c_gate,                \* what became of the gate call
    c_handler,             \* the handler method that was called
    c_out,                 \* what the handler did
    c_frames,              \* the frames written to the socket
    c_pc,                  \* the thread's position in the loop
    c_thread,              \* "running", or "dead" after an uncaught exception
    c_recv,                \* what the last call of get_message came to
    c_late,                \* the loop test passed just before the stop event
                           \* was set: the thread is about to call get_message
    \* --- Satellite
    fsm_state,             \* self.fsm.current_state
    hb_checker,            \* self.hb_checker: "idle", "running" or "stopped"
    state_thread_evt,      \* self._state_thread_evt: "None", "clear", "set"
    state_thread_fut,      \* self._state_thread_fut: "None", "pending", "done"
    \* --- the main thread, in run_satellite
    m_pc,                  \* "get", "callback", "sleep", or "exited"
    m_task,                \* the task taken off the queue
    m_sleep,               \* what is left of a time.sleep, in ticks
    m_log,                 \* the exception the loop logged for the last task
    \* --- history of the first shutdown request
    h_shutdown,            \* "none", "queued" (exit task put), "replied"
    h_ahead,               \* tasks put before its exit task and not yet done
    \* --- the acquisition thread and the thread hook
    hooks,                 \* the do_* methods: "default", or "user" code,
                           \* or "faulty": user code and a checker whose
                           \* stop() raises
    f_log,                 \* what the last _wrap_failure logged
    config,                \* self.config, with the reply and the warnings of
                           \* the wrapper that used it last
    hb_peer,               \* the peer in the heartbeat checker: "unregistered",
                           \* "alive", or failed: "SAFE", "ERROR", "missing"
    net,                   \* the OFFER datagrams a peer's beacon has sent in
                           \* answer to REQUESTs, as a listener receives them
    com_thread_evt,        \* self._com_thread_evt: "clear" or "set"
    a_pc,                  \* "none", "starting", "run", "failing", "done"
    a_obs,                 \* this run's do_run: "observes" the stop event, "deaf"
    a_live,                \* the number of acquisition threads that live
    a_run,                 \* the run identifier given to the thread
    run_identifier,        \* self.run_identifier, "unset" before a start
    x_pc,                  \* _thread_exception: "none", "wrap_failure",
                           \* "fail_wait", "failure", "done"
    \* --- history of the FSM
    h_steady,              \* the steady state the FSM was in last
    h_refail               \* failure has been called with the FSM in ERROR

chirpVars == <<discovered_services, chirp_callbacks, registered_services, h_alive,
               beacon_out, task_queue, l_pc, l_msg, l_cb,
               r_pc, r_sid, r_cb, r_i, r_res, r_j, r_clean>>

cscpVars == <<methods, gates, cmds, c_wire, c_req, c_gate, c_handler, c_out,
              c_frames, c_pc, c_thread, c_recv, c_late>>

fsmVars == <<fsm_state, hb_checker, state_thread_evt, state_thread_fut>>

loopVars == <<m_pc, m_task, m_sleep, m_log, h_shutdown, h_ahead>>

acqVars == <<hooks, config, hb_peer, net, com_thread_evt, f_log, a_pc, a_obs, a_live, a_run, run_identifier, x_pc, h_steady, h_refail>>

satVars == <<fsmVars, loopVars, acqVars>>

vars == <<chirpVars, cscpVars, satVars>>

\* ------------------------------------------------------ DiscoveredService
DiscoveredService(host_uuid, serviceid, address, port, alive) ==
    [host_uuid |-> host_uuid, serviceid |-> serviceid, address |-> address,
     port |-> port, alive |-> alive]

ServiceOfMsg(msg) ==
    DiscoveredService(msg.host_uuid, msg.serviceid, msg.from_address,
                      msg.port, TRUE)

\* A comparison that also looks at the address.
ServiceEqWithAddress(a, b) ==
    /\ a.host_uuid = b.host_uuid
    /\ a.serviceid = b.serviceid
    /\ a.port = b.port
    /\ a.address = b.address

\* DiscoveredService.__eq__
ServiceEq(a, b) ==
    /\ a.host_uuid = b.host_uuid
    /\ a.serviceid = b.serviceid
    /\ a.port = b.port

\* `service in list`
ListContains(list, s) == \E i \in 1..Len(list) : ServiceEq(list[i], s)

\* list.remove(s): drops the first element equal to s (the caller has
\* checked that there is one; Python raises ValueError otherwise).
ListRemove(list, s) ==
    LET i == CHOOSE k \in 1..Len(list) :
                 /\ ServiceEq(list[k], s)
                 /\ \A m \in 1..(k - 1) : ~ServiceEq(list[m], s)
    IN  SubSeq(list, 1, i - 1) \o SubSeq(list, i + 1, Len(list))

\* A filter that forgets to compare the service kind.
KindMatchesAny(s, serviceid) == TRUE

\* get_discovered's test `s.serviceid == serviceid`
KindMatches(s, serviceid) == s.serviceid = serviceid

Task(callback, service) == [callback |-> callback, args |-> service]

\* The identity of a service: what DiscoveredService.__eq__ compares.
Identity(s) == <<s.host_uuid, s.serviceid, s.port>>

\* The record of the callback tasks put: the identity of the service of the
\* task is kept while the task put last for it carries alive = True.
Put(alive, task) ==
    IF task.args.alive THEN alive \cup {Identity(task.args)}
    ELSE alive \ {Identity(task.args)}

\* The service object _depart_service hands to the callback keeps alive = True.
DepartedServiceStillAlive(msg) ==
    DiscoveredService(msg.host_uuid, msg.serviceid, msg.from_address,
                      msg.port, TRUE)

\* The service object _depart_service hands to the callback: built from the
\* DEPART message, alive set to False.
DepartedService(msg) ==
    DiscoveredService(msg.host_uuid, msg.serviceid, msg.from_address,
                      msg.port, FALSE)

\* broadcast_offers with no serviceid: one OFFER per registration
OffersOfAll(registered, serviceid) ==
    { [serviceid |-> o[2], msgtype |-> "OFFER", port |-> o[1]] :
        o \in registered }

\* broadcast_offers(serviceid): one OFFER per matching registration
OffersFor(registered, serviceid) ==
    { [serviceid |-> o[2], msgtype |-> "OFFER", port |-> o[1]] :
        o \in { x \in registered : x[2] = serviceid } }

\* -------------------------------------------------------------------- Init
\* CHIRPBroadcaster.__init__, then Satellite.__init__'s register_offer calls.
ChirpInit ==
    /\ discovered_services = <<>>
    /\ chirp_callbacks = [s \in Services |-> NoCallback]
    /\ registered_services = {<<23999, "CONTROL">>, <<61234, "HEARTBEAT">>}
    /\ beacon_out = {}
    /\ h_alive = {}
    /\ task_queue = <<>>
    /\ l_pc = "listen" /\ l_msg = NoMsg /\ l_cb = NoCallback
    /\ r_pc = "idle" /\ r_sid = "none" /\ r_cb = NoCallback
    /\ r_i = 0 /\ r_res = <<>> /\ r_j = 0
    /\ r_clean = TRUE


listenerVars == <<l_pc, l_msg, l_cb>>
registerVars == <<r_pc, r_sid, r_cb, r_i, r_res, r_j>>

\* ------------------------------------------------- the CHIRP listener, _run
\* One pass of the loop: `msg = self._beacon.listen()` and the dispatch on
\* msg.msgtype. REQUEST is answered at once with broadcast_offers; a DEPART
\* with port 0 matches no branch and the loop continues. beacon_out holds
\* the datagrams sent while handling the message taken last.
ListenerReceive(msg) ==
    /\ l_pc = "listen"
    /\ l_pc' = CASE msg.msgtype = "OFFER" -> "discover"
               [] msg.msgtype = "DEPART" /\ msg.port # 0 -> "depart"
               [] OTHER -> "listen"
    /\ l_msg' = IF msg.msgtype = "OFFER" \/ (msg.msgtype = "DEPART" /\ msg.port # 0)
                THEN msg ELSE NoMsg
    /\ beacon_out' = IF msg.msgtype = "REQUEST"
                     THEN OffersFor(registered_services, msg.serviceid)
                     ELSE {}
    /\ r_clean' = IF r_pc = "idle" THEN r_clean ELSE FALSE
    /\ UNCHANGED <<discovered_services, chirp_callbacks, registered_services, h_alive,
                   task_queue, l_cb, registerVars>>
    /\ UNCHANGED <<cscpVars, satVars>>

\* _discover_service: `if service in self.discovered_services`: a known
\* service is logged and the loop continues.
DiscoverCheck ==
    /\ l_pc = "discover"
    /\ IF ListContains(discovered_services, ServiceOfMsg(l_msg))
       THEN l_pc' = "listen" /\ l_msg' = NoMsg
       ELSE l_pc' = "disc_lookup" /\ UNCHANGED l_msg
    /\ UNCHANGED <<discovered_services, chirp_callbacks, registered_services, h_alive,
                   beacon_out, task_queue, l_cb, registerVars, r_clean>>
    /\ UNCHANGED <<cscpVars, satVars>>

\* _discover_service: `callback = self._chirp_callbacks[msg.serviceid]`;
\* KeyError skips the put.
DiscoverLookup ==
    /\ l_pc = "disc_lookup"
    /\ l_cb' = chirp_callbacks[l_msg.serviceid]
    /\ l_pc' = "disc_put"
    /\ UNCHANGED <<discovered_services, chirp_callbacks, registered_services, h_alive,
                   beacon_out, task_queue, l_msg, registerVars, r_clean>>
    /\ UNCHANGED <<cscpVars, satVars>>

\* _discover_service: `self.task_queue.put((callback, [service]))` when a
\* callback was found, then `self.discovered_services.append(service)`; the
\* loop continues.
DiscoverPutAppend ==
    /\ l_pc = "disc_put"
    /\ IF l_cb = NoCallback
       THEN UNCHANGED <<task_queue, h_alive>>
       ELSE /\ task_queue' =
                   Append(task_queue, Task(l_cb, ServiceOfMsg(l_msg)))
            /\ h_alive' = Put(h_alive, Task(l_cb, ServiceOfMsg(l_msg)))
    /\ discovered_services' = Append(discovered_services, ServiceOfMsg(l_msg))
    /\ l_pc' = "listen" /\ l_msg' = NoMsg /\ l_cb' = NoCallback
    /\ UNCHANGED <<chirp_callbacks, registered_services, beacon_out,
                   registerVars, r_clean>>
    /\ UNCHANGED <<cscpVars, satVars>>

\* _depart_service: `self.discovered_services.remove(service)`; ValueError
\* (no equal entry) is logged and the loop continues.
DepartRemove ==
    /\ l_pc = "depart"
    /\ IF ListContains(discovered_services, ServiceOfMsg(l_msg))
       THEN /\ discovered_services' =
                   ListRemove(discovered_services, ServiceOfMsg(l_msg))
            /\ l_pc' = "dep_lookup"
            /\ UNCHANGED l_msg
       ELSE /\ UNCHANGED discovered_services
            /\ l_pc' = "listen" /\ l_msg' = NoMsg
    /\ UNCHANGED <<chirp_callbacks, registered_services, h_alive, beacon_out,
                   task_queue, l_cb, registerVars, r_clean>>
    /\ UNCHANGED <<cscpVars, satVars>>

\* _depart_service: `callback = self._chirp_callbacks[msg.serviceid]`;
\* KeyError ends the handling.
DepartLookup ==
    /\ l_pc = "dep_lookup"
    /\ IF chirp_callbacks[l_msg.serviceid] = NoCallback
       THEN l_pc' = "listen" /\ l_msg' = NoMsg /\ l_cb' = NoCallback
       ELSE /\ l_pc' = "dep_put"
            /\ l_cb' = chirp_callbacks[l_msg.serviceid]
            /\ UNCHANGED l_msg
    /\ UNCHANGED <<discovered_services, chirp_callbacks, registered_services, h_alive,
                   beacon_out, task_queue, registerVars, r_clean>>
    /\ UNCHANGED <<cscpVars, satVars>>

\* _depart_service: `self.task_queue.put((callback, [service]))`; the loop
\* continues.
DepartPut ==
    /\ l_pc = "dep_put"
    /\ task_queue' = Append(task_queue, Task(l_cb, DepartedService(l_msg)))
    /\ h_alive' = Put(h_alive, Task(l_cb, DepartedService(l_msg)))
    /\ l_pc' = "listen" /\ l_msg' = NoMsg /\ l_cb' = NoCallback
    /\ UNCHANGED <<discovered_services, chirp_callbacks, registered_services,
                   beacon_out, registerVars, r_clean>>
    /\ UNCHANGED <<cscpVars, satVars>>

\* ------------------------------------------------------- register_request
\* `self._chirp_callbacks[serviceid] = callback`, then the call of
\* get_discovered begins.
RegisterCall(serviceid, callback) ==
    /\ r_pc = "idle"
    /\ chirp_callbacks' = [chirp_callbacks EXCEPT ![serviceid] = callback]
    /\ r_pc' = "scan"
    /\ r_sid' = serviceid /\ r_cb' = callback
    /\ r_i' = 0 /\ r_res' = <<>> /\ r_j' = 0
    /\ r_clean' = (l_pc = "listen")
    /\ UNCHANGED <<discovered_services, registered_services, h_alive, beacon_out,
                   task_queue, listenerVars>>
    /\ UNCHANGED <<cscpVars, satVars>>

\* get_discovered: one turn of `for s in self.discovered_services`. The list
\* iterator holds an index and compares it with the list's current length.
RegisterScan ==
    /\ r_pc = "scan"
    /\ IF r_i < Len(discovered_services)
       THEN /\ r_res' = IF KindMatches(discovered_services[r_i + 1], r_sid)
                        THEN Append(r_res, discovered_services[r_i + 1])
                        ELSE r_res
            /\ r_i' = r_i + 1
            /\ UNCHANGED r_pc
       ELSE /\ r_pc' = "put"
            /\ UNCHANGED <<r_res, r_i>>
    /\ UNCHANGED <<discovered_services, chirp_callbacks, registered_services, h_alive,
                   beacon_out, task_queue, listenerVars, r_sid, r_cb, r_j,
                   r_clean>>
    /\ UNCHANGED <<cscpVars, satVars>>

\* one turn of `for known in ...: self.task_queue.put((callback, [known]))`
RegisterPut ==
    /\ r_pc = "put"
    /\ r_j < Len(r_res)
    /\ task_queue' = Append(task_queue, Task(r_cb, r_res[r_j + 1]))
    /\ h_alive' = Put(h_alive, Task(r_cb, r_res[r_j + 1]))
    /\ r_j' = r_j + 1
    /\ UNCHANGED <<discovered_services, chirp_callbacks, registered_services,
                   beacon_out, listenerVars, r_pc, r_sid, r_cb, r_i, r_res,
                   r_clean>>
    /\ UNCHANGED <<cscpVars, satVars>>

\* the put loop is exhausted: register_request returns
RegisterReturn ==
    /\ r_pc = "put"
    /\ r_j = Len(r_res)
    /\ r_pc' = "idle"
    /\ r_sid' = "none" /\ r_cb' = NoCallback
    /\ r_i' = 0 /\ r_res' = <<>> /\ r_j' = 0
    /\ r_clean' = TRUE
    /\ UNCHANGED <<discovered_services, chirp_callbacks, registered_services, h_alive,
                   beacon_out, task_queue, listenerVars>>
    /\ UNCHANGED <<cscpVars, satVars>>

\* ------------------------------------------------- run_satellite, one task
\* `task = self.task_queue.get(...)`; `callback(*args)`. The callback is user
\* code; what it does to the satellite is not part of the broadcaster.
TaskLoop ==
    /\ task_queue # <<>>
    /\ task_queue' = Tail(task_queue)
    /\ UNCHANGED <<discovered_services, chirp_callbacks, registered_services, h_alive,
                   beacon_out, listenerVars, registerVars, r_clean>>
    /\ UNCHANGED <<cscpVars, satVars>>

\* ==================================================================== CSCP
\* Strings that the code inspects character by character (command names,
\* reply texts) are sequences of one-character or longer pieces.
CSCPMessageVerb ==
    {"REQUEST", "SUCCESS", "NOTIMPLEMENTED", "INCOMPLETE", "INVALID",
     "UNKNOWN", "ERROR"}

UpperCase == <<"A", "B", "C", "D", "E", "F", "G", "H", "I", "J", "K", "L", "M",
               "N", "O", "P", "Q", "R", "S", "T", "U", "V", "W", "X", "Y", "Z">>
LowerCase == <<"a", "b", "c", "d", "e", "f", "g", "h", "i", "j", "k", "l", "m",
               "n", "o", "p", "q", "r", "s", "t", "u", "v", "w", "x", "y", "z">>

\* str.lower(), one character
LowerChar(c) ==
    IF \E i \in 1..Len(UpperCase) : UpperCase[i] = c
    THEN LowerCase[CHOOSE i \in 1..Len(UpperCase) : UpperCase[i] = c]
    ELSE c

\* str.lower()
Lower(name) == [i \in 1..Len(name) |-> LowerChar(name[i])]

\* `sub in text`
Contains(text, sub) ==
    \E i \in 0..(Len(text) - Len(sub)) : SubSeq(text, i + 1, i + Len(sub)) = sub

\* ------------------------------------------------------ satellite classes
\* get_name: a command of CommandReceiver itself. transition: a command with
\* a gate, _transition_is_allowed. Get_HV: a command a device satellite
\* declares with capital letters in the method name.
get_name == <<"g", "e", "t", "_", "n", "a", "m", "e">>
transition == <<"t", "r", "a", "n", "s", "i", "t", "i", "o", "n">>
Get_HV == <<"G", "e", "t", "_", "H", "V">>

SatelliteClasses ==
    { [methods |-> {get_name, transition}, gates |-> {transition}],
      [methods |-> {get_name, transition, Get_HV}, gates |-> {transition}] }

\* get_cscp_commands: `res[func] = doc` for every method marked as a command;
\* the key is the attribute name as dir() gives it.
GetCscpCommands(marked) == { func : func \in marked }

\* The command names a peer puts on the wire.
WireNames ==
    { get_name,
      <<"G", "E", "T", "_", "N", "A", "M", "E">>,
      <<"G", "e", "t", "_", "N", "a", "m", "e">>,
      transition,
      <<"T", "R", "A", "N", "S", "I", "T", "I", "O", "N">>,
      Get_HV,
      <<"g", "e", "t", "_", "h", "v">>,
      <<"G", "E", "T", "_", "H", "V">>,
      <<"f", "l", "y">>,
      <<"F", "L", "Y">> }

\* ------------------------------------------------------ what handlers do
\* The exception classes a gate or a handler raises. All but SystemExit
\* derive from Exception.
Exceptions ==
    {"NotImplementedError", "AttributeError", "TransitionNotAllowed",
     "TypeError", "ValueError", "KeyError", "RuntimeError", "SystemExit"}

IsException(e) == e # "SystemExit"

\* repr(e) and str(e)
Repr(e) == <<e, "('reason')">>
Str(e) == <<"reason">>

\* A handler returns (res, payload, meta) or raises. res_none: res is None;
\* payload <<>>: None. ser: which part of the reply msgpack cannot pack
\* ("ok": none).
Returns(res_none, res, payload, ser) ==
    [kind |-> "return", res_none |-> res_none, res |-> res,
     payload |-> payload, ser |-> ser, exc |-> "-"]

Raises(e) ==
    [kind |-> "raise", res_none |-> FALSE, res |-> <<>>, payload |-> <<>>,
     ser |-> "ok", exc |-> e]

HandlerOutcomes ==
    { Returns(FALSE, <<"done">>, <<>>, "ok"),
      Returns(FALSE, <<"done">>, <<"data">>, "ok"),
      Returns(FALSE, <<>>, <<>>, "ok"),
      Returns(TRUE, <<>>, <<>>, "ok"),
      Returns(TRUE, <<>>, <<"data">>, "ok"),
      Returns(FALSE, <<"object">>, <<>>, "text"),
      Returns(FALSE, <<"done">>, <<>>, "meta"),
      Returns(FALSE, <<"done">>, <<"data">>, "payload") }
    \cup { Raises(e) : e \in Exceptions }

NoOutcome == [kind |-> "none"]

\* A gate returns a truth value or raises.
GateOutcomes == {"true", "false", "AttributeError", "RuntimeError"}

\* What socket.recv_multipart and the decoding in get_message come to.
RecvOutcomes == {"again", "zmq_error", "bad_header", "bad_verb", "message"}

\* ------------------------------------------------------------ the socket
\* The frames of a message: the header, the body (verb, text), the payload.
\* more: the frame was sent with SNDMORE.
HeaderFrame ==
    [part |-> "header", verb |-> "-", text |-> <<>>,
     value |-> <<"CSCP", "\\x01">>, more |-> TRUE]

BodyFrame(verb, text, more) ==
    [part |-> "body", verb |-> verb, text |-> text, value |-> <<>>,
     more |-> more]

PayloadFrame(value) ==
    [part |-> "payload", verb |-> "-", text |-> <<>>, value |-> value,
     more |-> FALSE]

\* _dispatch: pack verb and text, send the header (encode packs meta), send
\* the body, then pack and send the payload if there is one. A part msgpack
\* cannot pack raises TypeError at that point; frames sent before stay sent.
Dispatch(text, verb, payload, ser) ==
    CASE ser \in {"text", "meta"} ->
            [frames |-> <<>>, raised |-> TRUE]
      [] ser = "payload" /\ payload # <<>> ->
            [frames |-> <<HeaderFrame, BodyFrame(verb, text, TRUE)>>,
             raised |-> TRUE]
      [] payload # <<>> ->
            [frames |-> <<HeaderFrame, BodyFrame(verb, text, TRUE),
                          PayloadFrame(payload)>>,
             raised |-> FALSE]
      [] OTHER ->
            [frames |-> <<HeaderFrame, BodyFrame(verb, text, FALSE)>>,
             raised |-> FALSE]

\* send_reply with a text, a verb and a payload that can be packed
SendReply(text, verb, payload) == Dispatch(text, verb, payload, "ok").frames

\* get_message: the verb, the text lower-cased, the payload if there is a
\* third frame.
GetMessage(verb, name) == [msg_verb |-> verb, msg |-> Lower(name)]

NoReq == [msg_verb |-> "none", msg |-> <<>>]
NoHandler == <<>>

\* ------------------------------------------------------------ the tasks
\* A task is (callback, args). Beside the CHIRP callbacks: the exit task of
\* the shutdown command and the registration of a peer's heartbeat.
Self == [name |-> "satellite"]

NoTask == [callback |-> "none", args |-> <<>>]

\* `(reentry_timer, [self])`
ExitTask == [callback |-> "reentry_timer", args |-> <<Self>>]

\* `(callback, [name, f"tcp://{ip}:{port}", self.context])` with
\* callback = self.hb_checker.register
RegisterTask(name) ==
    [callback |-> "hb_checker.register", args |-> <<[peer |-> name]>>]

\* ------------------------------------------------------------------ FSM
SteadyStates == {"NEW", "INIT", "ORBIT", "RUN", "SAFE", "ERROR"}

Row(from, event, via, to) ==
    [from |-> from, event |-> event, via |-> via, to |-> to]

\* The transition table. failure is not a row: it leaves every state.
TransitionTable ==
    { Row("NEW", "initialize", "initializing", "INIT"),
      Row("INIT", "initialize", "initializing", "INIT"),
      Row("INIT", "launch", "launching", "ORBIT"),
      Row("ORBIT", "start", "starting", "RUN"),
      Row("RUN", "stop", "stopping", "ORBIT"),
      Row("ORBIT", "land", "landing", "INIT"),
      Row("ORBIT", "reconfigure", "reconfiguring", "ORBIT"),
      Row("ORBIT", "interrupt", "interrupting", "SAFE"),
      Row("RUN", "interrupt", "interrupting", "SAFE"),
      Row("SAFE", "recover", "recovering", "INIT") }

Events == { r.event : r \in TransitionTable }

\* The event is allowed in the state.
FsmAllowed(state, event) ==
    \E r \in TransitionTable : r.from = state /\ r.event = event

\* The transitional state the event leads to.
FsmEvent(state, event) ==
    (CHOOSE r \in TransitionTable : r.from = state /\ r.event = event).via

FsmCanComplete(state) == \E r \in TransitionTable : r.via = state

\* A complete that does not take the FSM out of starting.
FsmCompleteNotStarting(state) ==
    IF FsmCanComplete(state) /\ state # "starting"
    THEN (CHOOSE r \in TransitionTable : r.via = state).to
    ELSE state

\* fsm.complete: a transitional state goes to its steady state.
FsmComplete(state) ==
    IF FsmCanComplete(state)
    THEN (CHOOSE r \in TransitionTable : r.via = state).to
    ELSE state

\* The steady state the FSM was in last, after a step to `state`.
LastSteady(last, state) == IF state \in SteadyStates THEN state ELSE last

\* ------------------------------------------------ failure and thread hook
\* fsm.failure: the failure event takes every state to ERROR; in ERROR it
\* changes nothing.
FsmFailure(state) == IF state = "ERROR" THEN state ELSE "ERROR"

\* _wrap_failure, `if self._state_thread_evt: self._state_thread_evt.set()`
WrapFailureEvt(evt) == IF evt # "None" THEN "set" ELSE evt

\* threading.excepthook = self._thread_exception, run by a thread that an
\* uncaught exception ends: _wrap_failure (the heartbeat checker stopped, the
\* stop event set, every exception of the failure handling swallowed), then
\* fsm.failure.
ThreadException ==
    /\ hb_checker' = "stopped"
    /\ state_thread_evt' = WrapFailureEvt(state_thread_evt)
    /\ fsm_state' = FsmFailure(fsm_state)
    /\ h_steady' = LastSteady(h_steady, fsm_state')
    /\ h_refail' = (h_refail \/ fsm_state = "ERROR")
    /\ UNCHANGED <<state_thread_fut, loopVars, hooks, config, hb_peer, net, com_thread_evt, f_log, a_pc, a_obs,
                   a_live, a_run, run_identifier, x_pc>>

\* ------------------------------------------------------- the configuration
\* The keys a controller sends with initialize or reconfigure.
ConfigKeys == {<<"h", "v">>, <<"H", "V">>, <<"p">>}

\* make_lowercase: the keys of the dictionary in lower case.
MakeLowercase(given) == {Lower(k) : k \in given}

\* No Configuration yet: self.config is set by the first initialize.
NoConfig ==
    [last |-> "none", given |-> {}, keys |-> {}, used |-> {}, read |-> {},
     warnings |-> <<>>, reply |-> <<>>]

\* get_unused_keys: the keys no lookup has marked as used.
UnusedKeys(keys, used) == keys \ used

\* The orders get_unused_keys can list a set of keys in.
Orders(keys) ==
    {o \in [1..Cardinality(keys) -> keys] :
        \A i, j \in 1..Cardinality(keys) : o[i] = o[j] => i = j}

\* ",".join(keys)
RECURSIVE Join(_)
Join(order) ==
    IF Len(order) = 0 THEN <<>>
    ELSE IF Len(order) = 1 THEN order[1]
    ELSE order[1] \o <<",">> \o Join(Tail(order))

\* A wrapper that would return the reply of the hook as it is.
ReplyOfHook(msg, order) == <<msg>>

\* init_msg, with " IGNORED parameters: " and the unused keys appended when
\* has_unused_values().
ReplyText(msg, order) ==
    IF Len(order) = 0 THEN <<msg>>
    ELSE <<msg, " IGNORED parameters: ">> \o Join(order)

\* What do_initializing and do_reconfigure of the user return.
HookReply(event) ==
    IF event = "initialize" THEN "Initialized." ELSE "Reconfigured."

\* Satellite.__init__: the FSM in NEW, a HeartbeatChecker not yet started,
\* no acquisition thread.
SatInit ==
    /\ fsm_state = "NEW"
    /\ hb_checker = "idle"
    /\ state_thread_evt = "None"
    /\ state_thread_fut = "None"
    /\ m_pc = "get"
    /\ m_task = NoTask
    /\ m_sleep = 0
    /\ m_log = "none"
    /\ h_shutdown = "none"
    /\ h_ahead = 0
    /\ hooks = "default"
    /\ config = NoConfig
    /\ hb_peer = "unregistered"
    /\ net = {}
    /\ com_thread_evt = "clear"
    /\ f_log = "none"
    /\ a_pc = "none"
    /\ a_obs = "observes"
    /\ a_live = 0
    /\ a_run = "none"
    /\ run_identifier = "unset"
    /\ x_pc = "none"
    /\ h_steady = "NEW"
    /\ h_refail = FALSE

\* ----------------------------------------------------------- _recv_cmds
\* A check that lets every verb pass.
IsRequestAny(verb) == TRUE

\* `req.msg_verb != CSCPMessageVerb.REQUEST`, negated
IsRequest(verb) == verb = "REQUEST"

\* A lookup that finds every name.
InRegistryAlways(msg, registry) == TRUE

\* `req.msg not in self._cmds`, negated
InRegistry(msg, registry) == msg \in registry

\* A gate whose answer is not looked at.
GateNeverDenies(g) == FALSE

\* `if not is_allowed`
GateDenies(g) == g = "false"

\* A test that takes every result for a text.
ReturnsNothingNever(out) == FALSE

\* `if res is None`
ReturnsNothing(out) == out.res_none

\* An except chain whose last clause answers ERROR.
HandlerFailureVerbLastError(e) ==
    CASE e \in {"AttributeError", "NotImplementedError"} -> "NOTIMPLEMENTED"
      [] e = "TransitionNotAllowed" -> "INVALID"
      [] e \in {"TypeError", "ValueError"} -> "INCOMPLETE"
      [] OTHER -> "ERROR"

\* The except clauses after the handler call, in their order.
HandlerFailureVerb(e) ==
    CASE e \in {"AttributeError", "NotImplementedError"} -> "NOTIMPLEMENTED"
      [] e = "TransitionNotAllowed" -> "INVALID"
      [] e \in {"TypeError", "ValueError"} -> "INCOMPLETE"
      [] OTHER -> "INVALID"

HandlerFailureText(e) ==
    CASE e \in {"AttributeError", "NotImplementedError"} ->
            <<"WrongImplementation: ">> \o Repr(e)
      [] e = "TransitionNotAllowed" -> <<"Transition not allowed: ">> \o Str(e)
      [] e \in {"TypeError", "ValueError"} -> <<"Wrong argument: ">> \o Repr(e)
      [] OTHER -> <<"Exception: ">> \o Repr(e)

MalformedVerbText(verb) ==
    <<"Received malformed request with msg verb: ", verb>>

UnknownCommandText(msg) == <<"Unknown command: ">> \o msg

\* The outcome of one pass: [gate, handler, out, frames, thread].
Pass(gate, handler, out, frames, thread) ==
    [gate |-> gate, handler |-> handler, out |-> out, frames |-> frames,
     thread |-> thread]

\* `res, payload, meta = getattr(self, req.msg)(req)` and what follows. The
\* attribute is looked up first; a name the class does not have raises
\* AttributeError before any handler runs.
CallHandler(req, gate, out) ==
    LET hasattr == req.msg \in methods
        o == IF hasattr THEN out ELSE Raises("AttributeError")
        h == IF hasattr THEN req.msg ELSE NoHandler
    IN  IF o.kind = "raise"
        THEN IF IsException(o.exc)
             THEN Pass(gate, h, o,
                       SendReply(HandlerFailureText(o.exc),
                                 HandlerFailureVerb(o.exc), Repr(o.exc)),
                       "running")
             ELSE Pass(gate, h, o, <<>>, "dead")
        ELSE IF ReturnsNothing(o)
        THEN Pass(gate, h, o,
                  SendReply(<<"Command returned nothing">>, "INCOMPLETE", <<>>),
                  "running")
        ELSE LET d == Dispatch(o.res, "SUCCESS", o.payload, o.ser)
             IN  IF d.raised
                 THEN Pass(gate, h, o,
                           d.frames \o SendReply(<<"can not serialize">>,
                                                 "ERROR", <<>>),
                           "running")
                 ELSE Pass(gate, h, o, d.frames, "running")

\* The gate: `getattr(self, f"_{req.msg}_is_allowed")(req)`. No such
\* attribute, or an AttributeError out of the gate, lets the command pass;
\* any other exception is not caught.
CallGate(req, g, out) ==
    IF req.msg \notin gates
    THEN CallHandler(req, "absent", out)
    ELSE CASE g = "AttributeError" -> CallHandler(req, g, out)
           [] g = "RuntimeError" -> Pass(g, NoHandler, NoOutcome, <<>>, "dead")
           [] GateDenies(g) ->
                Pass(g, NoHandler, NoOutcome,
                     SendReply(<<"Command not allowed (in current state)">>,
                               "INVALID", <<>>),
                     "running")
           [] OTHER -> CallHandler(req, g, out)

\* The body of the loop for a message get_message returned.
HandleRequest(req, g, out) ==
    IF ~IsRequest(req.msg_verb)
    THEN Pass("not_called", NoHandler, NoOutcome,
              SendReply(MalformedVerbText(req.msg_verb), "INVALID", <<>>),
              "running")
    ELSE IF ~InRegistry(req.msg, cmds)
    THEN Pass("not_called", NoHandler, NoOutcome,
              SendReply(UnknownCommandText(req.msg), "UNKNOWN", <<>>),
              "running")
    ELSE CallGate(req, g, out)

\* `while not self._com_thread_evt.is_set()`: the call of get_message. It
\* returns None when nothing waits (EAGAIN) and raises RuntimeError for any
\* other socket error, a header of another protocol or a verb outside the
\* enum; _recv_cmds catches zmq.ZMQError only, so RuntimeError ends the
\* thread, and the thread hook runs.
RecvCmdsGetMessage(recv, verb, name) ==
    /\ c_thread = "running"
    /\ c_pc = "get_message"
    /\ c_wire' = IF recv = "message" THEN name ELSE <<>>
    /\ c_req' = IF recv = "message" THEN GetMessage(verb, name) ELSE NoReq
    /\ c_pc' = IF recv = "message" THEN "dispatch" ELSE "get_message"
    /\ c_thread' = IF recv \in {"again", "message"} THEN "running" ELSE "dead"
    /\ c_gate' = "not_called" /\ c_handler' = NoHandler /\ c_out' = NoOutcome
    /\ c_frames' = <<>>
    /\ c_recv' = recv
    /\ c_late' = FALSE
    /\ IF recv \in {"again", "message"}
       THEN UNCHANGED satVars
       ELSE ThreadException
    /\ UNCHANGED <<methods, gates, cmds, chirpVars>>

\* The rest of the pass for the message get_message returned: the checks,
\* the gate, the handler and the reply; the loop continues or the thread ends.
RecvCmdsDispatch(g, out) ==
    /\ c_thread = "running"
    /\ c_pc = "dispatch"
    /\ LET p == HandleRequest(c_req, g, out)
       IN  /\ c_gate' = p.gate
           /\ c_handler' = p.handler
           /\ c_out' = p.out
           /\ c_frames' = p.frames
           /\ c_thread' = p.thread
           /\ IF p.thread = "dead"
              THEN ThreadException
              ELSE UNCHANGED satVars
    /\ c_pc' = "get_message"
    /\ UNCHANGED <<methods, gates, cmds, c_wire, c_req, c_recv, c_late,
                   chirpVars>>

\* CommandReceiver.__init__ for a satellite of class cls
CscpInit(cls) ==
    /\ methods = cls.methods
    /\ gates = cls.gates
    /\ cmds = GetCscpCommands(cls.methods)
    /\ c_wire = <<>> /\ c_req = NoReq
    /\ c_gate = "not_called" /\ c_handler = NoHandler /\ c_out = NoOutcome
    /\ c_frames = <<>>
    /\ c_pc = "get_message"
    /\ c_thread = "running"
    /\ c_recv = "none"
    /\ c_late = FALSE

\* ====================================================== built-in commands
shutdown == <<"s", "h", "u", "t", "d", "o", "w", "n">>
register == <<"r", "e", "g", "i", "s", "t", "e", "r">>

\* The class Satellite of core/satellite.py: the commands this model calls.
\* None of them has a gate.
CoreSatellite == [methods |-> {get_name, shutdown, register}, gates |-> {}]

SatelliteName == <<"satellite">>

\* get_name: `return self.name, None, None`
GetNameOutcome == Returns(FALSE, SatelliteName, <<>>, "ok")

\* shutdown: `return f"{self.name} queued for reentry", None, None`
ShutdownOutcome ==
    Returns(FALSE, SatelliteName \o <<" queued for reentry">>, <<>>, "ok")

\* The payload of a register request, split at white space; <<>>: no payload.
RegisterPayloads == { <<"peer", "ip", "port">>, <<"peer", "ip">>, <<>> }

\* register: `name, ip, port = request.payload.split()` raises AttributeError
\* for the payload None and ValueError for a payload that is not three
\* words; else `return "registering", name, None`.
RegisterOutcome(payload) ==
    IF payload = <<>> THEN Raises("AttributeError")
    ELSE IF Len(payload) # 3 THEN Raises("ValueError")
    ELSE Returns(FALSE, <<"registering">>, <<payload[1]>>, "ok")

\* The pass reaches the call of the handler: a REQUEST, a registered name,
\* no gate.
ReachesHandler(req) ==
    /\ IsRequest(req.msg_verb)
    /\ InRegistry(req.msg, cmds)
    /\ req.msg \notin gates

chirpButQueue ==
    <<discovered_services, chirp_callbacks, registered_services, h_alive, beacon_out,
      listenerVars, registerVars, r_clean>>

\* The tasks ahead of one that is put now: those queued and the one running.
TasksAhead ==
    Len(task_queue) + (IF m_pc \in {"callback", "sleep"} THEN 1 ELSE 0)

\* The pass up to the return of shutdown: `self.task_queue.put((reentry_timer,
\* [self]))`. The handler does nothing else; the reply is the next step.
RecvCmdsShutdown ==
    /\ c_thread = "running"
    /\ c_pc = "dispatch"
    /\ ReachesHandler(c_req) /\ c_req.msg = shutdown
    /\ task_queue' = Append(task_queue, ExitTask)
    /\ c_gate' = "absent" /\ c_handler' = shutdown /\ c_out' = ShutdownOutcome
    /\ c_pc' = "reply"
    /\ h_shutdown' = IF h_shutdown = "none" THEN "queued" ELSE h_shutdown
    /\ h_ahead' = IF h_shutdown = "none" THEN TasksAhead ELSE h_ahead
    /\ UNCHANGED <<methods, gates, cmds, c_wire, c_req, c_frames, c_thread,
                   c_recv, c_late, chirpButQueue, fsmVars, acqVars, m_pc, m_task, m_sleep, m_log>>

\* The pass up to the return of register: the task is put if the payload
\* splits into three words.
RecvCmdsRegister(payload) ==
    /\ c_thread = "running"
    /\ c_pc = "dispatch"
    /\ ReachesHandler(c_req) /\ c_req.msg = register
    /\ task_queue' = IF RegisterOutcome(payload).kind = "return"
                      THEN Append(task_queue, RegisterTask(payload[1]))
                      ELSE task_queue
    /\ c_gate' = "absent" /\ c_handler' = register
    /\ c_out' = RegisterOutcome(payload)
    /\ c_pc' = "reply"
    /\ UNCHANGED <<methods, gates, cmds, c_wire, c_req, c_frames, c_thread,
                   c_recv, c_late, chirpButQueue, fsmVars, acqVars, loopVars>>

\* The rest of such a pass: the except clauses, the test of res and
\* send_reply.
RecvCmdsReply ==
    /\ c_thread = "running"
    /\ c_pc = "reply"
    /\ LET p == CallHandler(c_req, c_gate, c_out)
       IN  /\ c_frames' = p.frames
           /\ c_thread' = p.thread
    /\ c_pc' = "get_message"
    /\ h_shutdown' = IF h_shutdown = "queued" THEN "replied" ELSE h_shutdown
    /\ UNCHANGED <<methods, gates, cmds, c_wire, c_req, c_gate, c_handler,
                   c_out, c_recv, c_late, chirpVars, fsmVars, acqVars, m_pc,
                   m_task, m_sleep,
                   m_log, h_ahead>>

\* ============================================================ run_satellite
\* time.sleep(0.5) in reentry_timer, in ticks of 100 ms.
NoDelay == Len(<<>>)

ReentryDelay == 5

\* The callbacks that are code of the user or of the heartbeat checker, and
\* what a call of one comes to: it returns, or raises an Exception.
UserCallbacks == Callbacks \cup {"hb_checker.register"}

CallbackOutcomes == {"return", "RuntimeError", "KeyError", "TypeError"}

\* A queue that hands out what was put last.
QueueGetLast(queue) == queue[Len(queue)]

\* queue.Queue.get: what was put first.
QueueGet(queue) == Head(queue)

\* `task = self.task_queue.get(block=True, timeout=0.5)`. With the queue
\* empty the call times out, Empty is passed over and the loop comes back
\* here.
RunSatelliteGet ==
    /\ m_pc = "get"
    /\ task_queue # <<>>
    /\ m_task' = QueueGet(task_queue)
    /\ task_queue' = Tail(task_queue)
    /\ m_pc' = "callback"
    /\ UNCHANGED <<m_sleep, m_log, h_shutdown, h_ahead, chirpButQueue,
                   cscpVars, fsmVars, acqVars>>

acqButEvt ==
    <<hooks, config, hb_peer, net, f_log, a_pc, a_obs, a_live, a_run,
      run_identifier, x_pc, h_steady, h_refail>>

acqButNet ==
    <<hooks, config, hb_peer, com_thread_evt, f_log, a_pc, a_obs, a_live, a_run,
      run_identifier, x_pc, h_steady, h_refail>>

chirpButBeacon ==
    <<discovered_services, chirp_callbacks, registered_services, h_alive, task_queue,
      l_pc, l_msg, l_cb, r_pc, r_sid, r_cb, r_i, r_res, r_j, r_clean>>

acqButPeer ==
    <<hooks, config, net, com_thread_evt, f_log, a_pc, a_obs, a_live, a_run, run_identifier, x_pc,
      h_steady, h_refail>>

\* A loop without its `except Exception` clause.
AfterCallbackUncaught(outcome) == IF outcome = "return" THEN "get" ELSE "exited"

\* Where the main thread is after `callback(*args)`: `except Exception`
\* takes what derives from Exception and the loop goes on; anything else
\* leaves run_satellite.
AfterCallback(outcome) ==
    IF outcome = "return" \/ IsException(outcome) THEN "get" ELSE "exited"

\* `callback(*args)` for a callback that returns or raises; the except
\* clause logs the exception.
RunSatelliteCallback(outcome) ==
    /\ m_pc = "callback"
    /\ m_task.callback \in UserCallbacks
    /\ m_log' = IF outcome = "return" THEN "none" ELSE outcome
    /\ m_pc' = AfterCallback(outcome)
    /\ h_ahead' = IF h_ahead > 0 THEN h_ahead - 1 ELSE 0
    /\ hb_peer' = IF m_task.callback = "hb_checker.register"
                     /\ outcome = "return" /\ hb_peer = "unregistered"
                  THEN "alive" ELSE hb_peer
    /\ UNCHANGED <<m_task, m_sleep, h_shutdown, chirpVars, cscpVars, fsmVars,
                   acqButPeer>>

\* `callback(*args)` for reentry_timer: it starts with time.sleep(0.5).
ReentryTimerSleep ==
    /\ m_pc = "callback"
    /\ m_task.callback = "reentry_timer"
    /\ m_pc' = "sleep"
    /\ m_sleep' = ReentryDelay
    /\ UNCHANGED <<m_task, m_log, h_shutdown, h_ahead, chirpVars, cscpVars,
                   fsmVars, acqVars>>

\* 100 ms pass. The receiver thread does not take that long from the return
\* of a built-in handler to send_reply (two log calls and a non-blocking
\* send), so no tick falls between the two.
Tick ==
    /\ m_pc = "sleep"
    /\ m_sleep > 0
    /\ c_pc # "reply"
    /\ m_sleep' = m_sleep - 1
    /\ UNCHANGED <<m_pc, m_task, m_log, h_shutdown, h_ahead, chirpVars,
                   cscpVars, fsmVars, acqVars>>

\* `sys.exit(0)`: SystemExit is no Exception, so neither except clause of
\* the loop takes it; run_satellite and with it the main thread end, and
\* the daemon threads with the process.
ReentryTimerExit ==
    /\ m_pc = "sleep"
    /\ m_sleep = 0
    /\ m_pc' = "exited"
    /\ UNCHANGED <<m_task, m_sleep, m_log, h_shutdown, h_ahead, chirpVars,
                   cscpVars, fsmVars, acqVars>>

\* ------------------------------------------------- transitions, the tasks
\* A transition requested by a command.
RunIds == {"run_41", "run_42"}

\* The payload of the command: start carries the run identifier.
StartTask(run) ==
    [callback |-> "transition",
     args |-> <<[event |-> "start", payload |-> run]>>]

TransitionTask(event) ==
    IF event = "start" THEN StartTask("run_42")
    ELSE [callback |-> "transition",
          args |-> <<[event |-> event, payload |-> "none"]>>]

MaxPending == 1

CanRequest == Len(task_queue) < MaxPending

\* A transition command has been received: its task is put.
Request(event) ==
    /\ CanRequest
    /\ task_queue' = Append(task_queue, TransitionTask(event))
    /\ UNCHANGED <<chirpButQueue, cscpVars, satVars>>

\* A start command with its run identifier has been received.
RequestStart(run) ==
    /\ CanRequest
    /\ task_queue' = Append(task_queue, StartTask(run))
    /\ UNCHANGED <<chirpButQueue, cscpVars, satVars>>

\* A register command has been received: its task is put.
RequestRegister ==
    /\ CanRequest
    /\ task_queue' = Append(task_queue, RegisterTask("peer"))
    /\ UNCHANGED <<chirpButQueue, cscpVars, satVars>>

\* What the checker can find of a peer that has failed.
PeerFailures == {"SAFE", "ERROR", "missing"}

\* The running heartbeat checker finds the registered peer in SAFE, in ERROR
\* or its heartbeats missing. The checker is made by `HeartbeatChecker()`,
\* without the task queue or the FSM of the satellite: the peer is kept for
\* get_failed, which the task loop does not call (`# TODO: add check for
\* heartbeatchecker`).
HeartbeatCheck(failure) ==
    /\ hb_checker = "running"
    /\ hb_peer = "alive"
    /\ hb_peer' = failure
    /\ UNCHANGED <<chirpVars, cscpVars, fsmVars, loopVars, acqButPeer>>

\* ---------------------------------------------------------- user's hooks
\* Hooks that all raise.
HookRaises(event) == "raise"

\* The hooks of the base class return, but for do_interrupting, which calls
\* do_stopping() and do_landing() without their payload, and do_reconfigure,
\* which the base class does not have.
DefaultHook(event) ==
    IF event \in {"interrupt", "reconfigure"} THEN "raise" ELSE "ok"

\* _wrap_recover calls no hook.
HookOutcomes(event) ==
    IF event = "recover" THEN {"ok"}
    ELSE IF hooks = "default" THEN {DefaultHook(event)}
    ELSE {"ok", "raise"}

\* do_run of the base class polls the stop event.
RunBehaviours == IF hooks = "default" THEN {"observes"} ELSE {"observes", "deaf"}

\* ------------------------------------------------- the wrappers, main thread
\* An error handler that would send the FSM to ERROR on a refused transition.
NotAllowedToError(state) == "ERROR"

\* handle_error, `except TransitionNotAllowed`: RuntimeError is raised from
\* the exception and fsm.failure is not called; the FSM keeps its state.
HandleErrorNotAllowed(state) == state

Event == m_task.args[1].event

Payload == m_task.args[1].payload

\* The wait on the future ends with TimeoutError: the thread does not end.
TimeoutPossible == state_thread_fut = "pending" /\ a_obs = "deaf"

\* The task loop takes a transition: (i) the transition is verified and the
\* transitional state entered; start hands _wrap_start to a new thread.
StartTransition ==
    /\ m_pc = "callback"
    /\ m_task.callback = "transition"
    /\ IF ~FsmAllowed(fsm_state, Event)
       THEN /\ m_log' = "RuntimeError"
            /\ m_pc' = "get"
            /\ fsm_state' = HandleErrorNotAllowed(fsm_state)
            /\ UNCHANGED <<hb_checker, state_thread_evt, state_thread_fut,
                           a_pc, a_obs, a_live, a_run>>
       ELSE /\ fsm_state' = FsmEvent(fsm_state, Event)
            /\ m_log' = "none"
            /\ IF Event = "start"
               THEN /\ state_thread_evt' = "clear"
                    /\ state_thread_fut' = "pending"
                    /\ a_pc' = "starting"
                    /\ a_obs' \in RunBehaviours
                    /\ a_live' = a_live + 1
                    /\ a_run' = Payload
                    /\ m_pc' = "get"
                    /\ UNCHANGED hb_checker
               ELSE /\ m_pc' = "wrap"
                    /\ UNCHANGED <<hb_checker, state_thread_evt,
                                   state_thread_fut, a_pc, a_obs, a_live,
                                   a_run>>
    /\ h_steady' = LastSteady(h_steady, fsm_state')
    /\ UNCHANGED <<m_task, m_sleep, h_shutdown, h_ahead, hooks, config, hb_peer, net, com_thread_evt, f_log, x_pc, h_refail,
                   run_identifier, chirpVars, cscpVars>>

\* (iv) the runner completes the transition; the FSM refuses when another
\* thread has left the transitional state.
Complete ==
    /\ fsm_state' = FsmComplete(fsm_state)
    /\ m_log' = IF FsmCanComplete(fsm_state) THEN "none" ELSE "RuntimeError"
    /\ m_pc' = "get"
    /\ h_steady' = LastSteady(h_steady, fsm_state')

\* The wrapper ends: its value is returned, or handle_error has caught.
WrapEnd(outcome) ==
    IF outcome = "ok" THEN Complete
    ELSE /\ m_pc' = "failure"
         /\ UNCHANGED <<fsm_state, m_log, h_steady>>

mainButPc == <<m_task, m_sleep, h_shutdown, h_ahead>>

acqButSteady == <<hooks, config, hb_peer, net, com_thread_evt, f_log, a_pc, a_obs, a_live, a_run, run_identifier, x_pc, h_refail>>

\* _wrap_initialize: the stop event is set and the future awaited, if any.
WrapInitialize ==
    /\ m_pc = "wrap"
    /\ Event = "initialize"
    /\ IF state_thread_evt = "None" \/ state_thread_fut = "None"
       THEN /\ state_thread_evt' = "None"
            /\ state_thread_fut' = "None"
            /\ m_pc' = "hook"
       ELSE /\ state_thread_evt' = "set"
            /\ m_pc' = "wait"
            /\ UNCHANGED state_thread_fut
    /\ UNCHANGED <<fsm_state, hb_checker, m_log, mainButPc, acqVars,
                   chirpVars, cscpVars>>

\* _wrap_launch
WrapLaunch(outcome) ==
    /\ m_pc = "wrap"
    /\ Event = "launch"
    /\ outcome \in HookOutcomes(Event)
    /\ hb_checker' = "running"
    /\ WrapEnd(outcome)
    /\ UNCHANGED <<state_thread_evt, state_thread_fut, mainButPc,
                   acqButSteady, chirpVars, cscpVars>>

\* _wrap_land
WrapLand(outcome) ==
    /\ m_pc = "wrap"
    /\ Event = "land"
    /\ outcome \in HookOutcomes(Event)
    /\ hb_checker' = "stopped"
    /\ WrapEnd(outcome)
    /\ UNCHANGED <<state_thread_evt, state_thread_fut, mainButPc,
                   acqButSteady, chirpVars, cscpVars>>

\* _wrap_reconfigure and _wrap_recover
WrapReconfigureRecover(outcome) ==
    /\ m_pc = "wrap"
    /\ Event \in {"reconfigure", "recover"}
    /\ outcome \in HookOutcomes(Event)
    /\ WrapEnd(outcome)
    /\ UNCHANGED <<hb_checker, state_thread_evt, state_thread_fut, mainButPc,
                   acqButSteady, chirpVars, cscpVars>>

\* _wrap_stop up to the wait; without a future the assertion fails.
WrapStop ==
    /\ m_pc = "wrap"
    /\ Event = "stop"
    /\ state_thread_evt' = WrapFailureEvt(state_thread_evt)
    /\ m_pc' = IF state_thread_fut = "None" THEN "failure" ELSE "wait"
    /\ UNCHANGED <<fsm_state, hb_checker, state_thread_fut, m_log, mainButPc,
                   acqVars, chirpVars, cscpVars>>

\* _wrap_interrupt up to the wait, or up to do_interrupting without an event.
WrapInterrupt ==
    /\ m_pc = "wrap"
    /\ Event = "interrupt"
    /\ IF state_thread_evt = "None"
       THEN /\ hb_checker' = "stopped"
            /\ m_pc' = "hook"
            /\ UNCHANGED state_thread_evt
       ELSE /\ state_thread_evt' = "set"
            /\ m_pc' = IF state_thread_fut = "None" THEN "failure" ELSE "wait"
            /\ UNCHANGED hb_checker
    /\ UNCHANGED <<fsm_state, state_thread_fut, m_log, mainButPc, acqVars,
                   chirpVars, cscpVars>>

\* A result that would not wait for the thread.
ResultAtOnce == TRUE

\* The thread has ended: the future holds its result or its exception.
FutureDone == state_thread_fut \in {"done", "raised"}

\* `self._state_thread_fut.result(...)` returns, or raises what the thread
\* has raised.
WaitResult ==
    /\ m_pc = "wait"
    /\ FutureDone
    /\ IF state_thread_fut = "raised"
       THEN /\ m_pc' = "failure"
            /\ UNCHANGED fsmVars
       ELSE /\ m_pc' = "hook"
            /\ state_thread_evt' =
                   IF Event = "stop" THEN state_thread_evt ELSE "None"
            /\ state_thread_fut' =
                   IF Event = "initialize" THEN "None" ELSE state_thread_fut
            /\ hb_checker' =
                   IF Event = "interrupt" THEN "stopped" ELSE hb_checker
            /\ UNCHANGED fsm_state
    /\ UNCHANGED <<m_log, mainButPc, acqVars, chirpVars, cscpVars>>

\* `self._state_thread_fut.result(...)` raises TimeoutError.
WaitTimeout ==
    /\ m_pc = "wait"
    /\ TimeoutPossible
    /\ m_pc' = "failure"
    /\ UNCHANGED <<fsmVars, m_log, mainButPc, acqVars, chirpVars, cscpVars>>

\* do_initializing, do_stopping, do_interrupting
DoHook(outcome) ==
    /\ m_pc = "hook"
    /\ outcome \in HookOutcomes(Event)
    /\ WrapEnd(outcome)
    /\ UNCHANGED <<hb_checker, state_thread_evt, state_thread_fut, mainButPc,
                   acqButSteady, chirpVars, cscpVars>>

\* get_state: the id of the current state of the FSM.
GetState == fsm_state

\* get_run_id
GetRunId == run_identifier

\* ------------------------------------------------------------ the failure
\* An error handler that would leave the FSM as it is.
FailureIgnored(state) == state

\* An error handler that would send the FSM to SAFE.
FailureToSafe(state) == "SAFE"

\* handle_error: `self.fsm.failure(err_msg)`
HandleErrorFailure(state) == FsmFailure(state)

\* A failure event that would raise to handle_error.
AfterRaise == "raised"

\* handle_error goes on with _wrap_failure.
AfterFailure == "wrap_failure"

\* _wrap_failure waits for the future.
WrapFailureWaits ==
    state_thread_evt # "None" /\ state_thread_fut = "pending"

\* A handler that would not call fsm.failure.
FailureSkipped == UNCHANGED <<fsm_state, h_steady, h_refail>>

CallFailure ==
    /\ fsm_state' = HandleErrorFailure(fsm_state)
    /\ h_steady' = LastSteady(h_steady, fsm_state')
    /\ h_refail' = (h_refail \/ fsm_state = "ERROR")

MainFailure ==
    /\ m_pc = "failure"
    /\ CallFailure
    /\ m_pc' = AfterFailure
    /\ UNCHANGED <<hb_checker, state_thread_evt, state_thread_fut, m_log,
                   mainButPc, hooks, config, hb_peer, net, com_thread_evt, f_log, a_pc, a_obs, a_live, a_run,
                   run_identifier, x_pc, chirpVars, cscpVars>>

\* What a call of _wrap_failure meets: nothing, hb_checker.stop() raising, or
\* fail_gracefully raising.
FailureOutcomes == {"ok", "stop_raises", "hook_raises"}

FailureOutcomesNow ==
    IF hooks = "default" THEN {"ok"}
    ELSE IF hooks = "user" THEN {"ok", "hook_raises"}
    ELSE FailureOutcomes

\* An except clause that would let the exception out of _wrap_failure.
WrapFailurePropagates(outcome, next) ==
    IF outcome = "ok" THEN next ELSE "raised"

\* except Exception: log.exception(e), return a string: the caller goes on
\* at next whatever was raised.
WrapFailureReturns(outcome, next) == next

\* result(timeout=1) on a future that is not pending returns at once, or
\* raises at once the exception the thread ended with.
ResultRaisesAtOnce ==
    state_thread_evt # "None" /\ state_thread_fut = "raised"

\* The try block of _wrap_failure up to the wait: when stop() raises, the
\* event is not set, nothing is waited for and fail_gracefully is not called.
WrapFailureTry(outcome) ==
    /\ outcome \in FailureOutcomesNow
    /\ IF outcome = "stop_raises"
       THEN /\ f_log' = "hb_checker.stop"
            /\ UNCHANGED <<hb_checker, state_thread_evt>>
       ELSE /\ hb_checker' = "stopped"
            /\ state_thread_evt' = WrapFailureEvt(state_thread_evt)
            /\ f_log' = IF WrapFailureWaits THEN f_log
                        ELSE IF ResultRaisesAtOnce THEN "result"
                        ELSE IF outcome = "hook_raises" THEN "fail_gracefully"
                        ELSE "none"

\* Whether the call is still in its try block after WrapFailureTry.
WrapFailureGoesOnWaiting(outcome) ==
    outcome # "stop_raises" /\ WrapFailureWaits

\* What the try block met, for the except clause.
WrapFailureMet(outcome) ==
    IF outcome = "stop_raises" \/ ResultRaisesAtOnce THEN "raise" ELSE
    IF outcome = "hook_raises" THEN "raise" ELSE "ok"

\* The wait ends: with the result, then fail_gracefully is called; with the
\* exception of the thread or a TimeoutError, then it is not.
WrapFailureWaited(outcome) ==
    /\ outcome \in FailureOutcomesNow \ {"stop_raises"}
    /\ state_thread_fut # "pending" \/ TimeoutPossible
    /\ f_log' = IF state_thread_fut # "done" THEN "result"
                ELSE IF outcome = "hook_raises" THEN "fail_gracefully"
                ELSE "none"

WaitedMet(outcome) ==
    IF state_thread_fut # "done" \/ outcome = "hook_raises"
    THEN "raise" ELSE "ok"

acqButLog == <<hooks, config, hb_peer, net, com_thread_evt, a_pc, a_obs, a_live, a_run, run_identifier, x_pc,
               h_steady, h_refail>>

\* _wrap_failure up to the wait
MainWrapFailure(outcome) ==
    /\ m_pc = "wrap_failure"
    /\ WrapFailureTry(outcome)
    /\ m_pc' = IF WrapFailureGoesOnWaiting(outcome) THEN "fail_wait"
               ELSE WrapFailureReturns(WrapFailureMet(outcome), "get")
    /\ UNCHANGED <<fsm_state, state_thread_fut, m_log, mainButPc, acqButLog,
                   chirpVars, cscpVars>>

\* The wait of _wrap_failure ends; what it raises is logged.
MainFailWait(outcome) ==
    /\ m_pc = "fail_wait"
    /\ WrapFailureWaited(outcome)
    /\ m_pc' = WrapFailureReturns(WaitedMet(outcome), "get")
    /\ UNCHANGED <<fsmVars, m_log, mainButPc, acqButLog, chirpVars, cscpVars>>

\* ------------------------------------------------- the acquisition thread
acqThreadUnchanged ==
    <<loopVars, hooks, config, hb_peer, net, com_thread_evt, f_log, a_obs, a_run, x_pc, chirpVars, cscpVars>>

\* A start that would not record the run identifier.
RunIdentifierLost(run) == "unset"

\* `self.run_identifier = run_identifier`
RunIdentifier(run) == run

\* _wrap_start: the run identifier is recorded, then do_starting, then
\* fsm.complete, which the FSM refuses when another thread has left starting.
AcqStarting(outcome) ==
    /\ a_pc = "starting"
    /\ outcome \in HookOutcomes("start")
    /\ run_identifier' = RunIdentifier(a_run)
    /\ IF outcome = "raise"
       THEN /\ a_pc' = "failure"
            /\ UNCHANGED <<fsm_state, state_thread_fut, a_live>>
       ELSE IF fsm_state = "starting"
       THEN /\ fsm_state' = FsmComplete(fsm_state)
            /\ a_pc' = "run"
            /\ UNCHANGED <<state_thread_fut, a_live>>
       ELSE /\ state_thread_fut' = "raised"
            /\ a_pc' = "done"
            /\ a_live' = a_live - 1
            /\ UNCHANGED fsm_state
    /\ h_steady' = LastSteady(h_steady, fsm_state')
    /\ UNCHANGED <<hb_checker, state_thread_evt, h_refail, acqThreadUnchanged>>

\* do_run returns once the stop event is set.
AcqRunReturn ==
    /\ a_pc = "run"
    /\ a_obs = "observes"
    /\ state_thread_evt = "set"
    /\ state_thread_fut' = "done"
    /\ a_pc' = "done"
    /\ a_live' = a_live - 1
    /\ UNCHANGED <<fsm_state, hb_checker, state_thread_evt, h_steady,
                   h_refail, run_identifier, acqThreadUnchanged>>

\* do_run of the user raises.
AcqRunRaise ==
    /\ a_pc = "run"
    /\ hooks # "default"
    /\ a_pc' = "failure"
    /\ UNCHANGED <<fsmVars, a_live, run_identifier, h_steady, h_refail,
                   acqThreadUnchanged>>

AcqFailure ==
    /\ a_pc = "failure"
    /\ CallFailure
    /\ a_pc' = AfterFailure
    /\ UNCHANGED <<hb_checker, state_thread_evt, state_thread_fut, a_live,
                   run_identifier, acqThreadUnchanged>>

acqButFailure == <<loopVars, hooks, config, hb_peer, net, com_thread_evt, a_obs, a_run, x_pc, chirpVars, cscpVars>>

\* _wrap_failure in the thread: it waits for its own future for a second,
\* then handle_error returns None and the thread ends.
AcqWrapFailure(outcome) ==
    /\ a_pc = "wrap_failure"
    /\ WrapFailureTry(outcome)
    /\ a_pc' = IF WrapFailureGoesOnWaiting(outcome) THEN "fail_wait"
               ELSE WrapFailureReturns(WrapFailureMet(outcome), "return")
    /\ UNCHANGED <<fsm_state, state_thread_fut, a_live, run_identifier,
                   h_steady, h_refail, acqButFailure>>

\* The wait ends, by a TimeoutError when the future is the thread's own.
AcqFailWait(outcome) ==
    /\ a_pc = "fail_wait"
    /\ outcome \in FailureOutcomesNow \ {"stop_raises"}
    /\ f_log' = IF state_thread_fut # "done" THEN "result"
                ELSE IF outcome = "hook_raises" THEN "fail_gracefully"
                ELSE "none"
    /\ a_pc' = WrapFailureReturns(WaitedMet(outcome), "return")
    /\ UNCHANGED <<fsmVars, a_live, run_identifier, h_steady, h_refail,
                   acqButFailure>>

\* handle_error returns None to the thread, which ends.
AcqReturn ==
    /\ a_pc = "return"
    /\ state_thread_fut' = "done"
    /\ a_pc' = "done"
    /\ a_live' = a_live - 1
    /\ UNCHANGED <<fsm_state, hb_checker, state_thread_evt, h_steady,
                   h_refail, run_identifier, acqThreadUnchanged>>

\* ---------------------------------------- _thread_exception, step by step
hookUnchanged == <<loopVars, hooks, config, hb_peer, net, com_thread_evt, f_log, a_pc, a_obs, a_live, a_run, run_identifier, chirpVars, cscpVars>>

\* A thread of the satellite dies of an exception.
ThreadDies ==
    /\ x_pc = "none"
    /\ x_pc' = "wrap_failure"
    /\ UNCHANGED <<fsmVars, h_steady, h_refail, hookUnchanged>>

hookButFailure ==
    <<loopVars, hooks, config, hb_peer, net, com_thread_evt, a_pc, a_obs, a_live, a_run, run_identifier, chirpVars,
      cscpVars>>

HookWrapFailure(outcome) ==
    /\ x_pc = "wrap_failure"
    /\ WrapFailureTry(outcome)
    /\ x_pc' = IF WrapFailureGoesOnWaiting(outcome) THEN "fail_wait"
               ELSE WrapFailureReturns(WrapFailureMet(outcome), "failure")
    /\ UNCHANGED <<fsm_state, state_thread_fut, h_steady, h_refail,
                   hookButFailure>>

HookFailWait(outcome) ==
    /\ x_pc = "fail_wait"
    /\ WrapFailureWaited(outcome)
    /\ x_pc' = WrapFailureReturns(WaitedMet(outcome), "failure")
    /\ UNCHANGED <<fsmVars, h_steady, h_refail, hookButFailure>>

HookFailure ==
    /\ x_pc = "failure"
    /\ CallFailure
    /\ x_pc' = "done"
    /\ UNCHANGED <<hb_checker, state_thread_evt, state_thread_fut,
                   hookUnchanged>>

\* ---------------------------------------------------------- specifications
\* The queue and the list are unbounded in the code. The model lets the
\* listener take a new OFFER only while the list has room, and lets a thread
\* put a task only while the queue has room (the task loop makes room).
HasRoom(msg) ==
    msg.msgtype = "OFFER" =>
        \/ Len(discovered_services) < MaxDiscovered
        \/ ListContains(discovered_services, ServiceOfMsg(msg))

CanPut == Len(task_queue) < MaxQueue

\* The broadcaster inside a running satellite: the listener thread, a thread
\* that registers callbacks for CONTROL, and the task loop.
NextChirp ==
    \/ \E msg \in CHIRPMessages : HasRoom(msg) /\ ListenerReceive(msg)
    \/ DiscoverCheck
    \/ DiscoverLookup
    \/ (l_cb # NoCallback => CanPut) /\ DiscoverPutAppend
    \/ DepartRemove
    \/ DepartLookup
    \/ CanPut /\ DepartPut
    \/ \E c \in Callbacks : RegisterCall("CONTROL", c)
    \/ RegisterScan
    \/ CanPut /\ RegisterPut
    \/ RegisterReturn
    \/ TaskLoop

\* The plain satellite class.
BaseClass == [methods |-> {get_name, transition}, gates |-> {transition}]

InitChirp == ChirpInit /\ CscpInit(BaseClass) /\ SatInit

SpecChirp == InitChirp /\ [][NextChirp]_vars

\* A peer whose OFFER was taken goes away without a DEPART and comes back:
\* it sends OFFER again, for the same port or for another one, from the same
\* address or from another one. The satellite sees nothing of its going.
ReturnMsg(host_uuid, serviceid, port, from_address) ==
    [host_uuid |-> host_uuid, serviceid |-> serviceid, msgtype |-> "OFFER",
     port |-> port, from_address |-> from_address, back |-> TRUE]

ReturnOffers ==
    { ReturnMsg("uuidA", "CONTROL", port, a) :
        port \in {23999, 24000}, a \in Addresses }

\* The message is the OFFER of a peer that is back.
Returning(msg) == "back" \in DOMAIN msg

\* An OFFER of this service of this host has been taken and no DEPART since.
PeerKnown(msg) ==
    \E i \in 1..Len(discovered_services) :
        /\ discovered_services[i].host_uuid = msg.host_uuid
        /\ discovered_services[i].serviceid = msg.serviceid

NextReturn ==
    \/ \E msg \in OfferMessages : HasRoom(msg) /\ ListenerReceive(msg)
    \/ \E msg \in ReturnOffers :
          PeerKnown(msg) /\ HasRoom(msg) /\ ListenerReceive(msg)
    \/ DiscoverCheck
    \/ DiscoverLookup
    \/ (l_cb # NoCallback => CanPut) /\ DiscoverPutAppend
    \/ \E c \in Callbacks : RegisterCall("CONTROL", c)
    \/ RegisterScan
    \/ CanPut /\ RegisterPut
    \/ RegisterReturn
    \/ TaskLoop

SpecReturn == InitChirp /\ [][NextReturn]_vars

\* Two satellites A and B on one network. registered_services and beacon_out
\* are A's registry and what A's beacon sent last; the listener, the cache
\* and the queue are B's; net holds A's OFFER datagrams as B's beacon
\* receives them. B's own beacon sends nothing while B handles an OFFER, and
\* B has no callback registered: its listener only fills the cache.
PeerUuid == "uuidA"
PeerAddress == "addr1"
OfferPorts == {24000, 61234}

\* register_offer(serviceid, port): `self._registered_services[port] =
\* serviceid`, the registration of the port is replaced.
RegisterOffer(serviceid, port) ==
    /\ registered_services' =
           {x \in registered_services : x[1] # port} \cup {<<port, serviceid>>}
    /\ UNCHANGED <<discovered_services, chirp_callbacks, h_alive, beacon_out,
                   task_queue, listenerVars, registerVars, r_clean>>
    /\ UNCHANGED <<cscpVars, satVars>>

\* B's request(serviceid) broadcasts a REQUEST; A's listener takes it in _run
\* and calls broadcast_offers(msg.serviceid); each datagram reaches B.
AnswerRequest(serviceid) ==
    /\ beacon_out' = OffersFor(registered_services, serviceid)
    /\ net' = net \cup { Msg(PeerUuid, o.serviceid, o.msgtype, o.port,
                             PeerAddress) : o \in beacon_out' }
    /\ UNCHANGED <<chirpButBeacon, cscpVars, fsmVars, loopVars, acqButNet>>

NextRequest ==
    \/ \E serviceid \in Services, port \in OfferPorts :
          RegisterOffer(serviceid, port)
    \/ \E serviceid \in Services : AnswerRequest(serviceid)
    \/ \E msg \in net : HasRoom(msg) /\ ListenerReceive(msg)
    \/ DiscoverCheck
    \/ DiscoverLookup
    \/ DiscoverPutAppend

SpecRequest == InitChirp /\ [][NextRequest]_vars

\* One OFFER of a CONTROL service and one register_request for CONTROL, on a
\* fresh broadcaster whose queue nobody drains yet (the task loop starts
\* after construction): every interleaving of the two threads.
NextOfferRegister ==
    \/ \E msg \in OfferMessages :
          /\ msg.serviceid = "CONTROL"
          /\ discovered_services = <<>>
          /\ ListenerReceive(msg)
    \/ DiscoverCheck
    \/ DiscoverLookup
    \/ DiscoverPutAppend
    \/ \E c \in Callbacks :
          /\ chirp_callbacks["CONTROL"] = NoCallback
          /\ RegisterCall("CONTROL", c)
    \/ RegisterScan
    \/ RegisterPut
    \/ RegisterReturn

SpecOfferRegister == InitChirp /\ [][NextOfferRegister]_vars

\* The command receiver thread of a satellite of either class, fed every
\* message and every behaviour of gate, handler and serialiser.
InitCscp ==
    ChirpInit /\ SatInit /\ \E cls \in SatelliteClasses : CscpInit(cls)

NextCscp ==
    \/ \E recv \in RecvOutcomes, verb \in CSCPMessageVerb, name \in WireNames :
          RecvCmdsGetMessage(recv, verb, name)
    \/ \E g \in GateOutcomes, out \in HandlerOutcomes : RecvCmdsDispatch(g, out)

SpecCscp == InitCscp /\ [][NextCscp]_vars

\* The task loop and its producers: the CHIRP listener with one peer's
\* CONTROL service coming and going, and the command receiver taking
\* shutdown, register and get_name requests. The satellite has registered a
\* callback for CONTROL while no service was known (register_request on an
\* empty cache puts nothing). The process is gone once the main thread has
\* left run_satellite.
MaxTasks == 2

CanPutTask == Len(task_queue) < MaxTasks

LoopMessages ==
    { Msg("uuidA", "CONTROL", "OFFER", 23999, "addr1"),
      Msg("uuidA", "CONTROL", "DEPART", 23999, "addr1") }

InitLoop ==
    /\ discovered_services = <<>>
    /\ chirp_callbacks = [s \in Services |->
                             IF s = "CONTROL" THEN "cbNew" ELSE NoCallback]
    /\ registered_services = {<<23999, "CONTROL">>, <<61234, "HEARTBEAT">>}
    /\ beacon_out = {}
    /\ h_alive = {}
    /\ task_queue = <<>>
    /\ l_pc = "listen" /\ l_msg = NoMsg /\ l_cb = NoCallback
    /\ r_pc = "idle" /\ r_sid = "none" /\ r_cb = NoCallback
    /\ r_i = 0 /\ r_res = <<>> /\ r_j = 0
    /\ r_clean = TRUE
    /\ SatInit
    /\ CscpInit(CoreSatellite)

\* The process is there: the main thread has not left run_satellite.
Alive == m_pc # "exited"

NextLoop ==
    \/ \E msg \in LoopMessages : Alive /\ ListenerReceive(msg)
    \/ Alive /\ DiscoverCheck
    \/ Alive /\ DiscoverLookup
    \/ Alive /\ (l_cb # NoCallback => CanPutTask) /\ DiscoverPutAppend
    \/ Alive /\ DepartRemove
    \/ Alive /\ DepartLookup
    \/ Alive /\ CanPutTask /\ DepartPut
    \/ \E recv \in {"again", "message"}, name \in CoreSatellite.methods :
          Alive /\ RecvCmdsGetMessage(recv, "REQUEST", name)
    \/ Alive /\ c_req.msg = get_name /\ RecvCmdsDispatch("true", GetNameOutcome)
    \/ Alive /\ CanPutTask /\ RecvCmdsShutdown
    \/ \E payload \in RegisterPayloads :
          Alive /\ CanPutTask /\ RecvCmdsRegister(payload)
    \/ Alive /\ RecvCmdsReply
    \/ RunSatelliteGet
    \/ \E outcome \in CallbackOutcomes : RunSatelliteCallback(outcome)
    \/ ReentryTimerSleep
    \/ Tick
    \/ ReentryTimerExit

SpecLoop == InitLoop /\ [][NextLoop]_vars

\* ----------------------------------------------------------------- shutdown
\* The communication threads end when self._com_thread_evt is set. Each loop
\* tests the event at its head, `while not self._com_thread_evt.is_set()`;
\* the listener's test and the listen that follows it are one step here, and
\* so are the receiver's test and get_message, but for the call c_late marks:
\* the one whose test passed just before the event was set.
\*
\* The event is set by the base class when the satellite shuts down. The
\* receiver, if it is at the head of its loop, has tested the event by then
\* or has not.
StopComThreads ==
    /\ com_thread_evt = "clear"
    /\ com_thread_evt' = "set"
    /\ c_late' \in IF c_thread = "running" /\ c_pc = "get_message"
                   THEN BOOLEAN ELSE {FALSE}
    /\ UNCHANGED <<methods, gates, cmds, c_wire, c_req, c_gate, c_handler,
                   c_out, c_frames, c_pc, c_thread, c_recv>>
    /\ UNCHANGED <<chirpVars, fsmVars, loopVars, acqButEvt>>

\* broadcast_depart: one DEPART per registration
DepartsOf(registered) ==
    { [serviceid |-> o[2], msgtype |-> "DEPART", port |-> o[1]] :
        o \in registered }

\* _run after the loop: the log line and `self.broadcast_depart()`.
ListenerShutdown ==
    /\ l_pc = "listen"
    /\ com_thread_evt = "set"
    /\ beacon_out' = DepartsOf(registered_services)
    /\ l_pc' = "flush"
    /\ UNCHANGED <<discovered_services, chirp_callbacks, registered_services, h_alive,
                   task_queue, l_msg, l_cb, registerVars, r_clean>>
    /\ UNCHANGED <<cscpVars, satVars>>

\* _run: `time.sleep(0.5)`, `self._beacon.close()`; the thread ends.
ListenerClose ==
    /\ l_pc = "flush"
    /\ l_pc' = "closed"
    /\ UNCHANGED <<discovered_services, chirp_callbacks, registered_services, h_alive,
                   beacon_out, task_queue, l_msg, l_cb, registerVars, r_clean>>
    /\ UNCHANGED <<cscpVars, satVars>>

\* _recv_cmds after the loop: `self._cmd_tm.socket.close()`; the thread ends.
RecvCmdsClose ==
    /\ c_thread = "running"
    /\ c_pc = "get_message"
    /\ com_thread_evt = "set" /\ ~c_late
    /\ c_pc' = "closed"
    /\ UNCHANGED <<methods, gates, cmds, c_wire, c_req, c_gate, c_handler,
                   c_out, c_frames, c_thread, c_recv, c_late, chirpVars,
                   satVars>>

\* The loops run while the event is clear.
Running == com_thread_evt = "clear"

\* The queue is unbounded; the listener ends the handling it is in after the
\* event is set, whatever the queue holds.
CanPutLast == com_thread_evt = "set" \/ CanPutTask

\* What the listener does once it has a message, and after its loop.
ListenerThread ==
    \/ DiscoverCheck
    \/ DiscoverLookup
    \/ (l_cb # NoCallback => CanPutLast) /\ DiscoverPutAppend
    \/ DepartRemove
    \/ DepartLookup
    \/ CanPutLast /\ DepartPut
    \/ ListenerShutdown
    \/ ListenerClose

\* What the receiver does once it has a message, and after its loop.
ReceiverThread ==
    \/ \E recv \in RecvOutcomes :
          c_late /\ RecvCmdsGetMessage(recv, "REQUEST", get_name)
    \/ c_req.msg = get_name /\ RecvCmdsDispatch("true", GetNameOutcome)
    \/ RecvCmdsClose

\* A satellite with a callback for CONTROL, a peer whose CONTROL service
\* comes and goes, a controller that asks for the name or sends what
\* get_message cannot decode, and the shutdown.
NextShutdown ==
    \/ \E serviceid \in Services, port \in OfferPorts :
          Running /\ RegisterOffer(serviceid, port)
    \/ \E msg \in LoopMessages : Running /\ ListenerReceive(msg)
    \/ DiscoverCheck
    \/ DiscoverLookup
    \/ (l_cb # NoCallback => CanPutLast) /\ DiscoverPutAppend
    \/ DepartRemove
    \/ DepartLookup
    \/ CanPutLast /\ DepartPut
    \/ Running /\ TaskLoop
    \/ \E recv \in RecvOutcomes :
          (Running \/ c_late) /\ RecvCmdsGetMessage(recv, "REQUEST", get_name)
    \/ c_req.msg = get_name /\ RecvCmdsDispatch("true", GetNameOutcome)
    \/ StopComThreads
    \/ ListenerShutdown
    \/ ListenerClose
    \/ RecvCmdsClose

\* Threads that can run do run.
SpecShutdown ==
    InitLoop /\ [][NextShutdown]_vars
      /\ WF_vars(ListenerThread) /\ WF_vars(ReceiverThread)

\* The lifecycle: transition requests, the task
\* loop with the wrappers, the acquisition thread and the thread hook.
Outcomes == {"ok", "raise"}

\* The fields of a Satellite after __init__, whatever its hooks.
SatFields ==
    /\ fsm_state = "NEW"
    /\ hb_checker = "idle"
    /\ state_thread_evt = "None"
    /\ state_thread_fut = "None"
    /\ m_pc = "get"
    /\ m_task = NoTask
    /\ m_sleep = 0
    /\ m_log = "none"
    /\ h_shutdown = "none"
    /\ h_ahead = 0
    /\ config = NoConfig
    /\ hb_peer = "unregistered"
    /\ net = {}
    /\ com_thread_evt = "clear"
    /\ f_log = "none"
    /\ a_pc = "none"
    /\ a_obs = "observes"
    /\ a_live = 0
    /\ a_run = "none"
    /\ run_identifier = "unset"
    /\ x_pc = "none"
    /\ h_steady = "NEW"
    /\ h_refail = FALSE

InitFsm ==
    /\ ChirpInit
    /\ CscpInit(CoreSatellite)
    /\ SatFields
    /\ hooks \in {"default", "user"}

NextFsm ==
    \/ \E event \in Events : Request(event)
    \/ RunSatelliteGet
    \/ StartTransition
    \/ WrapInitialize
    \/ \E outcome \in Outcomes : WrapLaunch(outcome)
    \/ \E outcome \in Outcomes : WrapLand(outcome)
    \/ \E outcome \in Outcomes : WrapReconfigureRecover(outcome)
    \/ WrapStop
    \/ WrapInterrupt
    \/ WaitResult
    \/ WaitTimeout
    \/ \E outcome \in Outcomes : DoHook(outcome)
    \/ MainFailure
    \/ \E outcome \in FailureOutcomes : MainWrapFailure(outcome)
    \/ \E outcome \in FailureOutcomes : MainFailWait(outcome)
    \/ \E outcome \in Outcomes : AcqStarting(outcome)
    \/ AcqRunReturn
    \/ AcqRunRaise
    \/ AcqFailure
    \/ \E outcome \in FailureOutcomes : AcqWrapFailure(outcome)
    \/ \E outcome \in FailureOutcomes : AcqFailWait(outcome)
    \/ AcqReturn
    \/ ThreadDies
    \/ \E outcome \in FailureOutcomes : HookWrapFailure(outcome)
    \/ \E outcome \in FailureOutcomes : HookFailWait(outcome)
    \/ HookFailure

SpecFsm == InitFsm /\ [][NextFsm]_vars

\* The same satellite with user hooks and a heartbeat checker whose stop()
\* can raise.
InitFail ==
    /\ ChirpInit
    /\ CscpInit(CoreSatellite)
    /\ SatFields
    /\ hooks = "faulty"

SpecFail == InitFail /\ [][NextFsm]_vars

\* Runs: start commands with different run identifiers among the other
\* transitions, the task loop with the wrappers and the acquisition thread.
NextRun ==
    \/ \E run \in RunIds : RequestStart(run)
    \/ \E event \in Events \ {"start"} : Request(event)
    \/ RunSatelliteGet
    \/ StartTransition
    \/ WrapInitialize
    \/ \E outcome \in Outcomes : WrapLaunch(outcome)
    \/ \E outcome \in Outcomes : WrapLand(outcome)
    \/ \E outcome \in Outcomes : WrapReconfigureRecover(outcome)
    \/ WrapStop
    \/ WrapInterrupt
    \/ WaitResult
    \/ WaitTimeout
    \/ \E outcome \in Outcomes : DoHook(outcome)
    \/ MainFailure
    \/ \E outcome \in FailureOutcomes : MainWrapFailure(outcome)
    \/ \E outcome \in FailureOutcomes : MainFailWait(outcome)
    \/ \E outcome \in Outcomes : AcqStarting(outcome)
    \/ AcqRunReturn
    \/ AcqRunRaise
    \/ AcqFailure
    \/ \E outcome \in FailureOutcomes : AcqWrapFailure(outcome)
    \/ \E outcome \in FailureOutcomes : AcqFailWait(outcome)
    \/ AcqReturn

SpecRun == InitFsm /\ [][NextRun]_vars

\* The configuration in _wrap_initialize and _wrap_reconfigure: what the
\* controller sent, what the hook of the user looked up, the reply.
acqButConfig ==
    <<hooks, hb_peer, net, com_thread_evt, f_log, a_pc, a_obs, a_live, a_run,
      run_identifier, x_pc, h_steady, h_refail>>

configUnchanged == <<chirpVars, cscpVars, fsmVars, loopVars, acqButConfig>>

\* _wrap_initialize from make_lowercase on: a new Configuration, the hook
\* looks up the keys in read, a warning per unused key, the reply.
ConfigInitialize(given) ==
    LET keys == MakeLowercase(given) IN
    /\ \E read \in SUBSET keys :
       \E order \in Orders(UnusedKeys(keys, read)) :
          config' = [last |-> "initialize", given |-> given, keys |-> keys,
                     used |-> read, read |-> read, warnings |-> order,
                     reply |-> ReplyText(HookReply("initialize"), order)]
    /\ UNCHANGED configUnchanged

\* _wrap_reconfigure: the keys are merged into the Configuration, which
\* keeps the keys it has marked as used; do_reconfigure is the user's.
ConfigReconfigure(given) ==
    LET keys == config.keys \cup given IN
    /\ config.last # "none"
    /\ \E read \in SUBSET keys :
       LET used == config.used \cup read IN
       \E order \in Orders(UnusedKeys(keys, used)) :
          config' = [last |-> "reconfigure", given |-> given, keys |-> keys,
                     used |-> used, read |-> read, warnings |-> order,
                     reply |-> ReplyText(HookReply("reconfigure"), order)]
    /\ UNCHANGED configUnchanged

InitConfig ==
    /\ ChirpInit
    /\ CscpInit(CoreSatellite)
    /\ SatFields
    /\ hooks = "user"

NextConfig ==
    \/ \E given \in SUBSET ConfigKeys : ConfigInitialize(given)
    \/ \E given \in SUBSET ConfigKeys : ConfigReconfigure(given)

SpecConfig == InitConfig /\ [][NextConfig]_vars

\* The heartbeat checker and the lifecycle: a peer is registered, the
\* satellite is driven between INIT, ORBIT and SAFE, the peer fails.
\* The main thread runs as long as it has something to do; commands and
\* failures of the peer come or do not.
MainThread ==
    \/ RunSatelliteGet
    \/ \E outcome \in CallbackOutcomes : RunSatelliteCallback(outcome)
    \/ StartTransition
    \/ WrapInitialize
    \/ \E outcome \in Outcomes : WrapLaunch(outcome)
    \/ \E outcome \in Outcomes : WrapLand(outcome)
    \/ \E outcome \in Outcomes : WrapReconfigureRecover(outcome)
    \/ WrapInterrupt
    \/ \E outcome \in Outcomes : DoHook(outcome)
    \/ MainFailure
    \/ \E outcome \in FailureOutcomes : MainWrapFailure(outcome)

NextHeartbeat ==
    \/ RequestRegister
    \/ \E event \in Events \ {"start", "stop"} : Request(event)
    \/ \E failure \in PeerFailures : HeartbeatCheck(failure)
    \/ RunSatelliteGet
    \/ \E outcome \in CallbackOutcomes : RunSatelliteCallback(outcome)
    \/ StartTransition
    \/ WrapInitialize
    \/ \E outcome \in Outcomes : WrapLaunch(outcome)
    \/ \E outcome \in Outcomes : WrapLand(outcome)
    \/ \E outcome \in Outcomes : WrapReconfigureRecover(outcome)
    \/ WrapInterrupt
    \/ \E outcome \in Outcomes : DoHook(outcome)
    \/ MainFailure
    \/ \E outcome \in FailureOutcomes : MainWrapFailure(outcome)

SpecHeartbeat == InitFsm /\ [][NextHeartbeat]_vars /\ WF_vars(MainThread)

\* ============================================================ CHIRP claims
\* The identity of a service: (host_uuid, service_id, port).
SameIdentity(a, b) ==
    /\ a.host_uuid = b.host_uuid
    /\ a.serviceid = b.serviceid
    /\ a.port = b.port

IdentityCached(list, msg) ==
    \E i \in 1..Len(list) : SameIdentity(list[i], msg)

\* The listener thread takes a step.
ListenerSteps == l_pc' # l_pc

\* C1, first half: discovered_services never holds two entries with the
\* same (host_uuid, service_id, port).
C1_NoDuplicateIdentity ==
    \A i, j \in 1..Len(discovered_services) :
        i # j => ~SameIdentity(discovered_services[i], discovered_services[j])

\* C1, second half: an OFFER whose identity is already cached (no DEPART
\* removed it since the OFFER that inserted it), whatever its address, changes
\* neither the cache nor the queue; an OFFER of an absent identity adds one
\* entry of that identity and at most one task, for that service.
C1_OfferStep ==
    /\ (l_pc = "discover" /\ ListenerSteps
          /\ IdentityCached(discovered_services, l_msg))
       => /\ l_pc' = "listen"
          /\ UNCHANGED <<discovered_services, task_queue>>
    /\ (l_pc \in {"discover", "disc_lookup"} /\ ListenerSteps
          /\ ~IdentityCached(discovered_services, l_msg))
       => /\ l_pc' \in {"disc_lookup", "disc_put"}
          /\ UNCHANGED <<discovered_services, task_queue>>
    /\ (l_pc = "disc_put" /\ ListenerSteps)
       => /\ l_pc' = "listen"
          /\ Len(discovered_services') = Len(discovered_services) + 1
          /\ SubSeq(discovered_services', 1, Len(discovered_services))
                = discovered_services
          /\ SameIdentity(discovered_services'[Len(discovered_services')], l_msg)
          /\ \/ UNCHANGED task_queue
             \/ /\ Len(task_queue') = Len(task_queue) + 1
                /\ SubSeq(task_queue', 1, Len(task_queue)) = task_queue
                /\ SameIdentity(task_queue'[Len(task_queue')].args, l_msg)

\* C1: the cache never holds two entries with the same (host_uuid,
\* service_id, port); a second OFFER of a cached identity, also from another
\* address, leaves the one entry and enqueues nothing, and the first enqueued
\* at most one callback task.
C1_DiscoveryByIdentity == []C1_NoDuplicateIdentity /\ [][C1_OfferStep]_vars

\* A second OFFER for a cached identity, sent from another address, has been
\* taken by the listener.
C1_Witness ==
    /\ l_pc = "discover"
    /\ \E i \in 1..Len(discovered_services) :
          /\ SameIdentity(discovered_services[i], l_msg)
          /\ discovered_services[i].address # l_msg.from_address

\* The parts of C2 that hold as stated: a DEPART (port non-zero) whose
\* identity is cached removes exactly one entry, the one of that identity;
\* the task the listener enqueues for it carries alive = FALSE.
C2_RemoveStep ==
    (l_pc = "depart" /\ ListenerSteps
       /\ IdentityCached(discovered_services, l_msg))
    => /\ l_pc' = "dep_lookup"
       /\ Len(discovered_services') = Len(discovered_services) - 1
       /\ ~IdentityCached(discovered_services', l_msg)
       /\ UNCHANGED task_queue

C2_PutStep ==
    (l_pc = "dep_put" /\ ListenerSteps)
    => /\ l_pc' = "listen"
       /\ Len(task_queue') = Len(task_queue) + 1
       /\ SubSeq(task_queue', 1, Len(task_queue)) = task_queue
       /\ task_queue'[Len(task_queue')].callback = l_cb
       /\ SameIdentity(task_queue'[Len(task_queue')].args, l_msg)
       /\ task_queue'[Len(task_queue')].args.alive = FALSE
       /\ UNCHANGED discovered_services

\* C2 as stated: every DEPART with non-zero port that matches a cached entry
\* shrinks the cache by exactly one and has the callback enqueued exactly
\* once with alive = FALSE: after the removal the listener always goes on to
\* the put.
C2_DepartAlwaysCallsBack ==
    [][ /\ C2_RemoveStep
        /\ (l_pc = "dep_lookup" /\ ListenerSteps) => l_pc' = "dep_put"
        /\ C2_PutStep ]_vars

\* C2 amended: every DEPART with non-zero port that matches a cached entry
\* shrinks the cache by exactly one; if a callback is registered for the
\* service kind it is enqueued exactly once with alive = FALSE, and if none
\* is registered nothing is enqueued.
C2_DepartCallsBackIfRegistered ==
    [][ /\ C2_RemoveStep
        /\ (l_pc = "dep_lookup" /\ ListenerSteps)
           => IF chirp_callbacks[l_msg.serviceid] # NoCallback
              THEN /\ l_pc' = "dep_put"
                   /\ l_cb' = chirp_callbacks[l_msg.serviceid]
                   /\ UNCHANGED <<discovered_services, task_queue>>
              ELSE /\ l_pc' = "listen"
                   /\ UNCHANGED <<discovered_services, task_queue>>
        /\ C2_PutStep ]_vars

\* A matching DEPART was handled with a callback registered: its task, with
\* alive = FALSE, is in the queue and its entry is gone from the cache.
C2_Witness ==
    \E i \in 1..Len(task_queue) :
        /\ task_queue[i].args.alive = FALSE
        /\ ~IdentityCached(discovered_services, task_queue[i].args)

\* C3 as stated: one OFFER and one register_request for its kind, run
\* concurrently: once both are done, the callback has been enqueued for the
\* service exactly once.
C3_EnqueuedExactlyOnce ==
    (/\ l_pc = "listen" /\ discovered_services # <<>>
     /\ r_pc = "idle" /\ chirp_callbacks["CONTROL"] # NoCallback)
    => Len(task_queue) = 1

\* The cached services of the kind being registered, in cache order.
C4_KindCached ==
    SelectSeq(discovered_services, LAMBDA s : s.serviceid = r_sid)

\* One step of the program, seen from register_request.
C4_RegisterStep ==
    /\ (r_pc = "idle" /\ r_pc' = "scan")
       => /\ chirp_callbacks'[r_sid'] = r_cb'
          /\ UNCHANGED task_queue
    /\ (r_pc # "idle" /\ r_clean /\ r_clean'
          /\ Len(task_queue') > Len(task_queue))
       => /\ r_j < Len(C4_KindCached)
          /\ task_queue' = Append(task_queue, Task(r_cb, C4_KindCached[r_j + 1]))
          /\ r_j' = r_j + 1
    /\ (r_pc # "idle" /\ r_pc' = "idle" /\ r_clean)
       => /\ r_j = Len(C4_KindCached)
          /\ chirp_callbacks[r_sid] = r_cb
          /\ UNCHANGED task_queue

\* C4: register_request(kind, cb) called while the listener is between
\* messages, no message taken before it returns: cb replaces the callback of
\* the kind, and the tasks put are exactly (cb, s) for the k cached services
\* s of the kind, in cache order; nothing is put for a service of another kind.
C4_RegisterReplays == [][C4_RegisterStep]_vars

\* An undisturbed register_request has put all its tasks; the cache holds
\* services of its kind and a service of another kind.
C4_Witness ==
    /\ r_pc = "put" /\ r_clean
    /\ r_j = Len(r_res) /\ r_j >= 1
    /\ \E i \in 1..Len(discovered_services) :
          discovered_services[i].serviceid # r_sid

\* ============================================================= CSCP claims
NoReply == [verb |-> "none", text |-> <<>>, payload |-> <<>>]

\* The reply as the requester reads it off the socket: verb and text from
\* the frame after the header, the payload from the frame after that.
Reply ==
    IF Len(c_frames) < 2 THEN NoReply
    ELSE [verb |-> c_frames[2].verb, text |-> c_frames[2].text,
          payload |-> IF Len(c_frames) >= 3 THEN c_frames[3].value ELSE <<>>]

\* The pass for a received message is over.
PassDone == c_pc = "get_message" /\ c_req # NoReq

HandlerCalled == PassDone /\ c_handler # NoHandler

\* C5: when the gate _X_is_allowed of a registered command X returns false,
\* handler X is not called and the reply verb is INVALID.
C5_GateFalseBlocks ==
    (PassDone /\ c_gate = "false")
    => /\ c_req.msg \in cmds /\ c_req.msg \in gates
       /\ c_handler = NoHandler
       /\ Reply.verb = "INVALID"

\* The gate of `transition` returned false for a request.
C5_Witness == PassDone /\ c_gate = "false" /\ c_req.msg = transition

\* C6 as stated: lookup is case-insensitive: a REQUEST naming a command
\* exported as CSCP-callable, in any letter case, resolves to that command's
\* handler: it is found in the registry (never answered UNKNOWN), and the
\* handler that runs for it is that command's.
C6_CaseInsensitiveLookup ==
    \A m \in methods :
        (PassDone /\ c_req.msg_verb = "REQUEST" /\ Lower(c_wire) = Lower(m))
        => /\ Reply.verb # "UNKNOWN"
           /\ c_handler \in {NoHandler, m}

\* C7: a REQUEST whose command name is not in the registry is answered
\* UNKNOWN with a text that contains the (lower-cased) name; neither a gate
\* nor a handler is invoked.
C7_UnknownCommand ==
    (PassDone /\ c_req.msg_verb = "REQUEST" /\ c_req.msg \notin cmds)
    => /\ Reply.verb = "UNKNOWN"
       /\ Contains(Reply.text, Lower(c_wire))
       /\ c_gate = "not_called"
       /\ c_handler = NoHandler

\* A REQUEST for FLY has been answered.
C7_Witness ==
    /\ PassDone /\ c_req.msg_verb = "REQUEST"
    /\ c_wire = <<"F", "L", "Y">>
    /\ Reply.verb = "UNKNOWN"

\* The mappings of C8 that do not depend on serialisation: text nil gives
\* INCOMPLETE, NotImplementedError NOTIMPLEMENTED, TransitionNotAllowed
\* INVALID, TypeError and ValueError INCOMPLETE.
C8_OtherOutcomes ==
    /\ (c_out.kind = "return" /\ c_out.res_none) => Reply.verb = "INCOMPLETE"
    /\ (c_out.kind = "raise" /\ c_out.exc = "NotImplementedError")
       => Reply.verb = "NOTIMPLEMENTED"
    /\ (c_out.kind = "raise" /\ c_out.exc = "TransitionNotAllowed")
       => Reply.verb = "INVALID"
    /\ (c_out.kind = "raise" /\ c_out.exc \in {"TypeError", "ValueError"})
       => Reply.verb = "INCOMPLETE"

\* C8 as stated: the reply verb is a function of the handler outcome; a
\* returned (text, payload, meta) with text not nil gives SUCCESS, whatever
\* else is returned.
C8_VerbOfOutcome ==
    HandlerCalled
    => /\ (c_out.kind = "return" /\ ~c_out.res_none) => Reply.verb = "SUCCESS"
       /\ C8_OtherOutcomes

\* C8 amended: a returned (text, payload, meta) with text not nil gives
\* SUCCESS with that text when the reply can be serialised, and ERROR when
\* the text or the meta cannot; the other mappings are as stated.
C8_VerbOfOutcomeAmended ==
    HandlerCalled
    => /\ (c_out.kind = "return" /\ ~c_out.res_none /\ c_out.ser = "ok")
          => (Reply.verb = "SUCCESS" /\ Reply.text = c_out.res
                /\ Reply.payload = c_out.payload)
       /\ (c_out.kind = "return" /\ ~c_out.res_none
             /\ c_out.ser \in {"text", "meta"})
          => Reply.verb = "ERROR"
       /\ C8_OtherOutcomes

\* A handler returned a text with a meta that cannot be serialised; the
\* reply is ERROR.
C8_Witness ==
    /\ HandlerCalled
    /\ c_out.kind = "return" /\ ~c_out.res_none /\ c_out.ser = "meta"
    /\ Reply.verb = "ERROR"

\* The reply C9 expects: INVALID, the representation of the failure in the
\* text and as payload.
C9_InvalidWithRepr ==
    /\ Reply.verb = "INVALID"
    /\ Contains(Reply.text, Repr(c_out.exc))
    /\ Reply.payload = Repr(c_out.exc)

\* C9 as stated: every handler failure other than NotImplementedError,
\* TransitionNotAllowed, TypeError and ValueError is answered INVALID with a
\* representation of the failure.
C9_OtherFailuresInvalid ==
    (HandlerCalled /\ c_out.kind = "raise"
       /\ c_out.exc \notin {"NotImplementedError", "TransitionNotAllowed",
                            "TypeError", "ValueError"})
    => C9_InvalidWithRepr

\* C9 amended: every handler failure that is an Exception other than
\* AttributeError, NotImplementedError, TransitionNotAllowed, TypeError and
\* ValueError is answered INVALID with a representation of the failure.
C9_OtherFailuresInvalidAmended ==
    (HandlerCalled /\ c_out.kind = "raise" /\ IsException(c_out.exc)
       /\ c_out.exc \notin {"AttributeError", "NotImplementedError",
                            "TransitionNotAllowed", "TypeError", "ValueError"})
    => C9_InvalidWithRepr

\* A handler raised KeyError and the request has been answered.
C9_Witness ==
    /\ HandlerCalled
    /\ c_out.kind = "raise" /\ c_out.exc = "KeyError"
    /\ c_frames # <<>>

\* C10: a message with a defined verb other than REQUEST is answered
\* INVALID; no gate and no handler is invoked, registered name or not.
C10_NonRequestInvalid ==
    (PassDone /\ c_req.msg_verb # "REQUEST")
    => /\ Reply.verb = "INVALID"
       /\ c_gate = "not_called"
       /\ c_handler = NoHandler

\* A SUCCESS message naming the registered, gated command `transition` has
\* been answered.
C10_Witness ==
    /\ PassDone /\ c_req.msg_verb = "SUCCESS"
    /\ c_req.msg = transition /\ c_req.msg \in cmds
    /\ c_frames # <<>>

\* C11: a malformed CSCP message (a header of another protocol, or a verb
\* code outside the defined set) is answered INVALID; the receive loop goes
\* on, so the thread lives to serve later requests, and the FSM state is as
\* it was.
C11_MalformedAnsweredInvalid ==
    [][ ( /\ c_thread = "running" /\ c_pc = "get_message"
          /\ c_recv' \in {"bad_header", "bad_verb"} )
        => ( /\ Reply'.verb = "INVALID"
             /\ c_thread' = "running"
             /\ c_pc' = "get_message"
             /\ fsm_state' = fsm_state ) ]_vars

\* C12: a transport error other than 'no message waiting' is followed by
\* the back-off and the next pass of the loop; it never ends the receiver
\* thread.
C12_TransportErrorBacksOff ==
    [][ ( /\ c_thread = "running" /\ c_pc = "get_message"
          /\ c_recv' = "zmq_error" )
        => ( /\ c_thread' = "running"
             /\ c_pc' = "get_message" ) ]_vars

\* ======================================================= task loop claims
\* The process ends only in the exit task, with the reply to the shutdown
\* request sent and nothing left of what was put before the exit task.
C13_ExitState ==
    m_pc = "exited"
    => /\ m_task = ExitTask
       /\ h_shutdown = "replied"
       /\ h_ahead = 0

\* The shutdown handler puts one exit task and returns; the pass then
\* answers SUCCESS. Neither step ends the main thread.
C13_ShutdownStep ==
    /\ (c_pc = "dispatch" /\ c_pc' = "reply" /\ c_handler' = shutdown)
       => /\ task_queue' = Append(task_queue, ExitTask)
          /\ c_out' = ShutdownOutcome
          /\ m_pc' = m_pc
    /\ (c_pc = "reply" /\ c_pc' = "get_message" /\ c_handler = shutdown)
       => /\ Reply'.verb = "SUCCESS"
          /\ Reply'.text = ShutdownOutcome.res
          /\ m_pc' = m_pc

\* The main thread ends in a step of the task loop, inside the exit task.
C13_ExitStep ==
    (m_pc # "exited" /\ m_pc' = "exited")
    => /\ m_pc = "sleep"
       /\ m_task = ExitTask

C14_QueueStep ==
    /\ task_queue' # task_queue
       => \/ /\ Len(task_queue') = Len(task_queue) + 1
             /\ SubSeq(task_queue', 1, Len(task_queue)) = task_queue
             /\ UNCHANGED <<m_pc, m_task>>
          \/ /\ m_pc = "get" /\ m_pc' = "callback"
             /\ task_queue # <<>>
             /\ m_task' = task_queue[1]
             /\ task_queue' = SubSeq(task_queue, 2, Len(task_queue))
    /\ (m_pc # "callback" /\ m_pc' = "callback")
       => /\ m_pc = "get"
          /\ Len(task_queue') = Len(task_queue) - 1
    /\ m_pc \in {"callback", "sleep"}
       => /\ m_task' = m_task
          /\ Len(task_queue') >= Len(task_queue)

\* C14: the tasks put by the CHIRP listener, the command receiver and the
\* heartbeat registration are run by the one task loop in the order they
\* were put, one at a time: the loop takes the next only after the callback
\* of the previous one is over, and takes each task put exactly once.
C14_TasksInEnqueueOrder == [][C14_QueueStep]_vars

\* The loop is inside a CHIRP callback while the registration of a
\* heartbeat, put after it by the command receiver, waits in the queue.
C14_Witness ==
    /\ m_pc = "callback"
    /\ m_task.callback = "cbNew"
    /\ Len(task_queue) = 2
    /\ task_queue[1].callback = "hb_checker.register"
    /\ task_queue[2].callback = "reentry_timer"

\* C15: an exception raised by a task's callback is caught and logged by
\* the task loop: the step leaves the FSM state as it is, the loop is not
\* ended, and what waits in the queue is taken next.
C15_CallbackExceptionLogged ==
    /\ [][ ( /\ m_pc = "callback" /\ m_task.callback \in UserCallbacks
             /\ m_pc' # "callback" /\ m_log' # "none" )
           => ( /\ m_log' \in CallbackOutcomes \ {"return"}
                /\ fsm_state' = fsm_state
                /\ m_pc' = "get"
                /\ task_queue' = task_queue ) ]_vars
    /\ []( ( m_pc = "get" /\ m_log # "none" /\ task_queue # <<>> )
           => ENABLED RunSatelliteGet )

\* After a callback that raised, the loop is inside the next task.
C15_Witness ==
    /\ m_pc = "callback"
    /\ m_log # "none"
    /\ m_task.callback = "hb_checker.register"

\* ======================================================= lifecycle claims
\* The task loop is in the wrapper of the event.
InWrapper(event) ==
    /\ m_task = TransitionTask(event)
    /\ m_pc \in {"wrap", "wait", "hook", "failure", "wrap_failure", "fail_wait"}

\* C18: an interrupt issued in ORBIT or in RUN, with the default hooks, an
\* acquisition thread that observes the stop event and no thread that has
\* died, ends in steady state SAFE: when the task loop leaves the wrapper of
\* interrupt, the FSM is in SAFE.
C18_InterruptEndsInSafe ==
    [][(/\ hooks = "default"
        /\ a_obs = "observes"
        /\ x_pc = "none"
        /\ InWrapper("interrupt")
        /\ m_pc' = "get")
       => fsm_state' = "SAFE"]_vars

\* The (From, To) pairs of the transition table.
TablePairs == { <<r.from, r.to>> : r \in TransitionTable }

\* C17: each change from one steady state to the next steady state, other
\* than a failure transition into ERROR, is a (From, To) pair of the
\* transition table, whatever commands, queued tasks and steps of the
\* acquisition thread occur.
C17_SteadyPairsInTable ==
    [][(/\ fsm_state' # fsm_state
        /\ fsm_state' \in SteadyStates \ {"ERROR"})
       => <<h_steady, fsm_state'>> \in TablePairs]_vars

\* A run has been started and stopped: RUN has been left for ORBIT.
C17_Witness ==
    /\ fsm_state = "ORBIT"
    /\ m_task = TransitionTask("stop")
    /\ m_pc = "get"
    /\ a_pc = "done"
    /\ state_thread_fut = "done"

\* The path of steady states and the events between them.
Path == <<"NEW", "INIT", "ORBIT", "RUN", "ORBIT", "INIT", "SAFE", "INIT">>

PathEvents ==
    <<"initialize", "launch", "start", "stop", "land", "interrupt", "recover">>

\* The FSM is in the transitional state of the event issued in `from`.
InTransition(from, event) ==
    /\ FsmAllowed(from, event)
    /\ h_steady = from
    /\ fsm_state = FsmEvent(from, event)

\* The event issued in `from` produces the step to `to` without a failure:
\* the task loop that takes it in `from` leaves the steady state, its wrapper
\* with the default hooks does not raise, and the transition completes in
\* `to`.
PathStep(from, event, to) ==
    /\ (/\ fsm_state = from
        /\ m_pc = "callback"
        /\ m_task = TransitionTask(event)
        /\ m_pc' # m_pc)
       => fsm_state' \notin SteadyStates
    /\ (/\ InTransition(from, event)
        /\ hooks = "default"
        /\ m_task = TransitionTask(event)
        /\ m_pc \in {"wrap", "wait", "hook"})
       => m_pc' # "failure"
    /\ (/\ InTransition(from, event)
        /\ hooks = "default"
        /\ a_pc = "starting")
       => a_pc' # "failure"
    /\ (/\ InTransition(from, event)
        /\ fsm_state' \in SteadyStates \ {"ERROR"})
       => fsm_state' = to

PathLegal(path, events) ==
    \A i \in 1..Len(events) : PathStep(path[i], events[i], path[i + 1])

\* C16: NEW, INIT, ORBIT, RUN, ORBIT, INIT, SAFE, INIT is a legal path: each
\* consecutive step is produced by its event (initialize, launch, start,
\* stop, land, interrupt, recover) without a failure transition.
C16_PathThroughSafeLegal == [][PathLegal(Path, PathEvents)]_vars

LandedPath == SubSeq(Path, 1, 6)

LandedEvents == SubSeq(PathEvents, 1, 5)

\* C16, amended: NEW, INIT, ORBIT, RUN, ORBIT, INIT is a legal path: each
\* consecutive step is produced by its event (initialize, launch, start,
\* stop, land) without a failure transition.
C16_PathLegal == [][PathLegal(LandedPath, LandedEvents)]_vars

\* The satellite with the default hooks has landed after a run that was
\* started and stopped; ERROR is never left, so no failure has occurred.
C16_Witness ==
    /\ hooks = "default"
    /\ fsm_state = "INIT"
    /\ m_task = TransitionTask("land")
    /\ m_pc = "get"
    /\ hb_checker = "stopped"
    /\ a_pc = "done"
    /\ state_thread_fut = "done"

\* C20: in every steady state the number of live acquisition threads is 1
\* when the FSM is in RUN and 0 when it is not, also after a stop, interrupt
\* or failure whose wait on the future timed out.
C20_ThreadsMatchRun ==
    fsm_state \in SteadyStates
        => a_live = (IF fsm_state = "RUN" THEN 1 ELSE 0)

\* C20, amended: at most one acquisition thread lives, its context is the
\* one the satellite holds, and in NEW, INIT, ORBIT and SAFE none lives.
C20_AtMostOneThread ==
    /\ a_live \in {0, 1}
    /\ a_live = 1 => state_thread_evt # "None" /\ state_thread_fut = "pending"
    /\ fsm_state \in {"NEW", "INIT", "ORBIT", "SAFE"} => a_live = 0

\* The wait of a stop has timed out: the FSM is in ERROR, the task loop is
\* back at the queue, and the thread that does not observe the stop event
\* is still in do_run.
C20_Witness ==
    /\ fsm_state = "ERROR"
    /\ m_task = TransitionTask("stop")
    /\ m_pc = "get"
    /\ state_thread_evt = "set"
    /\ a_pc = "run"
    /\ a_obs = "deaf"
    /\ a_live = 1
    /\ x_pc = "none"

\* A thread calls fsm.failure in this step.
MainCallsFailure == m_pc = "failure" /\ m_pc' # m_pc

AcqCallsFailure == a_pc = "failure" /\ a_pc' # a_pc

HookCallsFailure == x_pc = "failure" /\ x_pc' # x_pc

\* The caller goes on after the call: handle_error with _wrap_failure,
\* _thread_exception to its end.
CallerGoesOn ==
    /\ MainCallsFailure => m_pc' = "wrap_failure"
    /\ AcqCallsFailure => a_pc' = "wrap_failure"
    /\ HookCallsFailure => x_pc' = "done"

C21_StopTimeoutEndsInError ==
    [][/\ (InWrapper("stop") /\ m_pc = "wrap" /\ m_pc' = "wait")
          => state_thread_evt' = "set"
       /\ (InWrapper("stop") /\ a_obs = "deaf")
          => fsm_state' # "ORBIT"
       /\ (InWrapper("stop") /\ a_obs = "deaf" /\ m_pc' = "get")
          => GetState' = "ERROR"]_vars

\* The wait of the stop has timed out with the thread still in do_run, and
\* the task loop has left the wrapper.
C21_Witness ==
    /\ GetState = "ERROR"
    /\ m_task = TransitionTask("stop")
    /\ m_pc = "get"
    /\ a_obs = "deaf"
    /\ a_pc = "run"
    /\ state_thread_evt = "set"
    /\ state_thread_fut = "pending"
    /\ hb_checker = "stopped"

\* C22: the run identifier recorded by start is kept by stop and by every
\* later transition until the next start: once the thread of a start has
\* recorded it, get_run_id returns the identifier of that start, in ORBIT
\* after the stop as in every other state.
C22_RunIdKept ==
    /\ a_pc = "none" => GetRunId = "unset"
    /\ a_pc \notin {"none", "starting"} => GetRunId = a_run

\* The run run_41 has been started and stopped and the satellite has
\* landed since: get_run_id still returns run_41.
C22_Witness ==
    /\ fsm_state = "INIT"
    /\ m_task = TransitionTask("land")
    /\ m_pc = "get"
    /\ a_pc = "done"
    /\ a_obs = "observes"
    /\ GetRunId = "run_41"

\* handle_error has caught in the task loop, or in the thread of _wrap_start.
MainHandlesError == m_pc \in {"wrap_failure", "fail_wait"}

AcqHandlesError == a_pc \in {"wrap_failure", "fail_wait", "return"}

\* C23: when a hook raises inside its wrapper, handle_error drives the FSM
\* to ERROR and returns None: the FSM is in ERROR from the call of failure
\* on, the task loop gets no exception and completes nothing, and the
\* future of the thread holds a result, not an exception.
C23_HookErrorEndsInError ==
    /\ [](MainHandlesError \/ AcqHandlesError => fsm_state = "ERROR")
    /\ [][/\ MainCallsFailure \/ AcqCallsFailure => fsm_state' = "ERROR"
          /\ (MainHandlesError /\ m_pc' # m_pc /\ ~MainHandlesError')
             => m_pc' = "get" /\ m_log' = m_log /\ fsm_state' = "ERROR"
          /\ (AcqHandlesError /\ a_pc' # a_pc /\ ~AcqHandlesError')
             => a_pc' = "done" /\ state_thread_fut' = "done"]_vars

\* do_launching of the user has raised, with no other failure around: the
\* task loop is back at the queue, nothing logged, the FSM in ERROR.
C23_Witness ==
    /\ hooks = "user"
    /\ fsm_state = "ERROR"
    /\ m_task = TransitionTask("launch")
    /\ m_pc = "get"
    /\ m_log = "none"
    /\ a_pc = "none"
    /\ x_pc = "none"

\* A call of _wrap_failure ends in this step, by the main thread, the
\* acquisition thread or the thread hook.
MainEndsWrapFailure ==
    m_pc \in {"wrap_failure", "fail_wait"} /\ m_pc' \notin {m_pc, "fail_wait"}

AcqEndsWrapFailure ==
    a_pc \in {"wrap_failure", "fail_wait"} /\ a_pc' \notin {a_pc, "fail_wait"}

HookEndsWrapFailure ==
    x_pc \in {"wrap_failure", "fail_wait"} /\ x_pc' \notin {x_pc, "fail_wait"}

\* C24: when hb_checker.stop(), the wait on the future of the thread or
\* fail_gracefully raises inside _wrap_failure, the exception is logged and
\* goes no further: the caller goes on where a normal return takes it, the
\* task loop logs nothing, and the FSM is in ERROR once the failure handling
\* is over.
C24_FailureHandlingCompletes ==
    [][/\ (MainEndsWrapFailure /\ f_log' # "none")
          => m_pc' = "get" /\ m_log' = m_log /\ fsm_state' = "ERROR"
       /\ (AcqEndsWrapFailure /\ f_log' # "none")
          => a_pc' = "return" /\ fsm_state' = "ERROR"
       /\ (HookEndsWrapFailure /\ f_log' # "none") => x_pc' = "failure"
       /\ HookCallsFailure => x_pc' = "done" /\ fsm_state' = "ERROR"]_vars

\* fail_gracefully has raised in the main thread, which is back at the
\* queue with the FSM in ERROR.
C24_Witness ==
    /\ f_log = "fail_gracefully"
    /\ fsm_state = "ERROR"
    /\ m_task.callback = "transition"
    /\ m_pc = "get"
    /\ m_log = "none"
    /\ a_pc = "none"
    /\ x_pc = "none"

\* The positions of _thread_exception; none of them is an exception
\* leaving it.
HookPositions == {"none", "wrap_failure", "fail_wait", "failure", "done"}

\* _thread_exception returns in this step.
HookReturns == x_pc # "done" /\ x_pc' = "done"

\* The acquisition thread ends with an exception that no handler caught.
AcqUncaught == state_thread_fut # "raised" /\ state_thread_fut' = "raised"

Warned(key) == \E i \in DOMAIN config.warnings : config.warnings[i] = key

NoHandling ==
    /\ m_pc = "get"
    /\ x_pc \in {"none", "done"}
    /\ a_pc \notin {"failure", "wrap_failure", "fail_wait", "return"}

\* C27: the heartbeat checker follows the lifecycle: with the FSM at rest in
\* INIT, SAFE or ERROR the checker is not running, and in ORBIT or RUN it is
\* running.
C27_CheckerFollowsState ==
    NoHandling =>
        /\ fsm_state \in {"INIT", "SAFE", "ERROR"} => hb_checker # "running"
        /\ fsm_state \in {"ORBIT", "RUN"} => hb_checker = "running"

\* C28: once the checker has found the registered peer failed, the FSM of
\* the satellite is eventually taken to SAFE when the peer is in SAFE, and to
\* ERROR when the peer is in ERROR or its heartbeats are missing.
C28_PeerFailureDrivesFsm ==
    /\ (hb_peer = "SAFE") ~> (fsm_state = "SAFE")
    /\ (hb_peer \in {"ERROR", "missing"}) ~> (fsm_state = "ERROR")

\* ------------------------------------------------------ the peer that is back
\* C29 as stated: the OFFER of a peer that went away without a DEPART and is
\* back is treated as a new discovery: the listener goes on to look up the
\* callback of the service and to put it.
C29_ReturningOfferIsNew ==
    [][(l_pc = "discover" /\ ListenerSteps /\ Returning(l_msg))
       => l_pc' = "disc_lookup"]_vars

\* C29 amended: the OFFER of a peer that is back is a new discovery when no
\* entry of its (host_uuid, service_id, port) is cached, and then the
\* callback registered for the service is enqueued with it and the entry
\* added; with its old entry still cached the OFFER changes neither the
\* cache nor the queue.
C29_ReturningOfferByIdentity ==
    [][/\ (l_pc = "discover" /\ ListenerSteps /\ Returning(l_msg))
          => IF IdentityCached(discovered_services, l_msg)
             THEN /\ l_pc' = "listen"
                  /\ UNCHANGED <<discovered_services, task_queue>>
             ELSE l_pc' = "disc_lookup"
       /\ (l_pc = "disc_lookup" /\ ListenerSteps /\ Returning(l_msg))
          => /\ l_pc' = "disc_put"
             /\ l_cb' = chirp_callbacks[l_msg.serviceid]
       /\ (l_pc = "disc_put" /\ ListenerSteps /\ Returning(l_msg))
          => /\ discovered_services'
                  = Append(discovered_services, ServiceOfMsg(l_msg))
             /\ l_cb # NoCallback
                  => task_queue'
                       = Append(task_queue, Task(l_cb, ServiceOfMsg(l_msg)))]_vars

\* The peer is back on another port with a callback registered: its task is
\* in the queue, its old entry and its new one in the cache.
C29_Witness ==
    /\ l_pc = "listen"
    /\ \E i \in 1..Len(task_queue) :
          /\ task_queue[i].callback # NoCallback
          /\ task_queue[i].args.host_uuid = "uuidA"
          /\ task_queue[i].args.port = 24000
    /\ \E i, j \in 1..Len(discovered_services) :
          /\ discovered_services[i].host_uuid = "uuidA"
          /\ discovered_services[i].port = 23999
          /\ discovered_services[j].host_uuid = "uuidA"
          /\ discovered_services[j].port = 24000

\* The identities (host, service kind, port) in B's cache.
CachedIdentities ==
    { <<discovered_services[i].host_uuid, discovered_services[i].serviceid,
        discovered_services[i].port>> : i \in 1..Len(discovered_services) }


\* The OFFERs sent are those of the registered pairs of kind s, no others.
AnswerIsExact(s) ==
    /\ \A o \in beacon_out' :
          o.msgtype = "OFFER" /\ o.serviceid = s
            /\ <<o.port, s>> \in registered_services
    /\ \A x \in registered_services :
          x[2] = s => \E o \in beacon_out' : o.port = x[1] /\ o.serviceid = s
    /\ Cardinality(beacon_out') =
          Cardinality({x \in registered_services : x[2] = s})

\* B's listener ends the handling of an OFFER of A that B had no entry for.
GainsFromOffer ==
    /\ l_pc = "disc_put" /\ l_pc' = "listen"
    /\ l_msg \in net

\* C30: when A receives a REQUEST for service kind s it broadcasts an OFFER
\* for exactly the registered (port, service) pairs whose service is s, and
\* the requester B, having no entry for the service offered, gains exactly
\* one cache entry for each such OFFER it takes: the entry of that OFFER.
C30_RequestAnsweredAndCached ==
    /\ [][\A s \in Services : AnswerRequest(s) => AnswerIsExact(s)]_vars
    /\ [][GainsFromOffer =>
            /\ Len(discovered_services') = Len(discovered_services) + 1
            /\ SubSeq(discovered_services', 1, Len(discovered_services)) =
                  discovered_services
            /\ discovered_services'[Len(discovered_services')] =
                  DiscoveredService(PeerUuid, l_msg.serviceid, PeerAddress,
                                    l_msg.port, TRUE)
            /\ <<PeerUuid, l_msg.serviceid, l_msg.port>>
                  \notin CachedIdentities]_vars
    /\ [](/\ Cardinality(CachedIdentities) = Len(discovered_services)
          /\ \A id \in CachedIdentities :
                \E msg \in net : id = <<msg.host_uuid, msg.serviceid, msg.port>>)

\* A, with two CONTROL registrations and one for HEARTBEAT, has answered a
\* REQUEST for CONTROL with two OFFERs, and B has cached both.
C30_Witness ==
    /\ Cardinality({x \in registered_services : x[2] = "CONTROL"}) = 2
    /\ \E x \in registered_services : x[2] = "HEARTBEAT"
    /\ Cardinality(beacon_out) = 2
    /\ \A o \in beacon_out : o.serviceid = "CONTROL"
    /\ Len(discovered_services) = 2
    /\ \A o \in beacon_out :
          <<PeerUuid, "CONTROL", o.port>> \in CachedIdentities
    /\ l_pc = "listen"

\* The listener has left its loop.
ListenerLeft == l_pc \in {"flush", "closed"}

\* The listener's half of it: DEPARTs sent, no message handled after the
\* loop, and its socket closed in the end.
ListenerClosesAfterStop ==
    /\ [](ListenerLeft =>
            /\ \A x \in registered_services :
                  [serviceid |-> x[2], msgtype |-> "DEPART", port |-> x[1]]
                     \in beacon_out
            /\ Cardinality(beacon_out) = Cardinality(registered_services))
    /\ [][ListenerLeft =>
            /\ l_msg' = l_msg /\ l_msg = NoMsg
            /\ discovered_services' = discovered_services
            /\ task_queue' = task_queue
            /\ ListenerLeft']_vars
    /\ (com_thread_evt = "set" ~> l_pc = "closed")

\* The receiver, running when the event is set, closes its socket.
ReceiverClosesAfterStop ==
    (com_thread_evt = "set" /\ c_thread = "running") ~> c_pc = "closed"

\* C31: once the communication-stop event is set, every background thread
\* eventually leaves its loop and closes its own socket; the CHIRP listener,
\* after leaving its loop, broadcasts one DEPART for every registered (port,
\* service) offer before it closes its socket, and handles no further
\* incoming message.
C31_ThreadsCloseAfterStop ==
    ListenerClosesAfterStop /\ ReceiverClosesAfterStop

\* do_run begins in this step.
DoRunBegins == a_pc # "run" /\ a_pc' = "run"

\* The acquisition thread ends in this step.
AcqEnds == a_pc # "done" /\ a_pc' = "done"

\* C32: on start the run identifier is recorded and do_starting is invoked
\* first, then the transitional state is completed so that the FSM is in RUN,
\* and only then does do_run begin, in the acquisition thread, whose end
\* resolves the future; do_run never executes while the FSM is in starting,
\* and a failure of do_starting keeps do_run from executing at all.
C32_StartThenCompleteThenRun ==
    /\ [][DoRunBegins =>
            /\ a_pc = "starting" /\ fsm_state = "starting"
            /\ run_identifier' = a_run
            /\ fsm_state' = "RUN"
            /\ state_thread_fut' = "pending"
            /\ UNCHANGED <<m_pc, m_task>>]_vars
    /\ [][(a_pc = "starting" /\ a_pc' # a_pc /\ ~DoRunBegins) =>
            /\ a_pc' \in {"failure", "done"}
            /\ run_identifier' = a_run]_vars
    /\ [][(a_pc \in {"failure", "wrap_failure", "fail_wait", "return", "done"})
            => (~DoRunBegins)]_vars
    /\ [][AcqEnds => state_thread_fut' \in {"done", "raised"}]_vars
    /\ [](a_pc = "run" => fsm_state # "starting")

\* do_run executes with the FSM in RUN, the run identifier recorded and the
\* future pending, while the task loop waits for its next task.
C32_Witness ==
    /\ a_pc = "run"
    /\ fsm_state = "RUN"
    /\ run_identifier = a_run /\ a_run \in RunIds
    /\ state_thread_fut = "pending"
    /\ m_pc = "get"

\* The FSM changes state in this step.
FsmChanges == fsm_state' # fsm_state

\* Whose step it is: the task loop's, the thread hook's, the acquisition
\* thread's (the task loop's step that starts the thread is the loop's), or
\* the command receiver's, which puts a task.
ByTaskLoop == m_pc' # m_pc
ByThreadHook == x_pc' # x_pc
ByAcquisition == a_pc' # a_pc /\ m_pc' = m_pc
ByReceiver == Len(task_queue') > Len(task_queue)

\* Two threads are at the call of fsm.failure at once.
TwoAtFailure ==
    \/ m_pc = "failure" /\ a_pc = "failure"
    \/ m_pc = "failure" /\ x_pc = "failure"
    \/ a_pc = "failure" /\ x_pc = "failure"

Iterating == r_pc = "scan"

\* The listener has begun to apply an OFFER or a DEPART and is not done: the
\* OFFER found new and not yet appended, the DEPART's entry removed and its
\* callback not yet put.
PartlyApplied == l_pc \in {"disc_lookup", "disc_put", "dep_lookup", "dep_put"}

\* C34: accesses to discovered_services and to the registries are mutually
\* exclusive: no insert or remove by the listener falls into an iteration or
\* mutation by another thread, and no iteration observes a partially applied
\* OFFER or DEPART.
C34_ListAccessExclusive ==
    /\ [][Iterating => discovered_services' = discovered_services]_vars
    /\ [][PartlyApplied =>
            r_i' = r_i /\ chirp_callbacks' = chirp_callbacks]_vars

\* A transition is refused inside a method wrapped in handle_error: the task
\* loop fires an event the FSM does not allow in its state.
RefusedInLoop ==
    /\ m_pc = "callback"
    /\ m_task.callback = "transition"
    /\ ~FsmAllowed(fsm_state, Event)
    /\ m_pc' # m_pc

\* fsm.complete of _wrap_start is refused: the FSM has left starting.
RefusedInThread ==
    /\ a_pc = "starting"
    /\ fsm_state # "starting"
    /\ a_pc' = "done"

\* The RuntimeError of handle_error reaches the caller: the task loop, which
\* logs it, or the future of the thread.
RaisedToLoop == m_log' = "RuntimeError" /\ m_pc' = "get"
RaisedToFuture == state_thread_fut' = "raised"

\* C35, as stated: a transition refused inside a method wrapped in
\* handle_error is raised to the caller as a RuntimeError, and inside a
\* transition wrapper the FSM is then in ERROR.
C35_RefusedRaisesAndError ==
    [][/\ RefusedInLoop => (RaisedToLoop /\ fsm_state' = "ERROR")
       /\ RefusedInThread => (RaisedToFuture /\ fsm_state' = "ERROR")]_vars

\* C35, amended: a transition refused inside a method wrapped in handle_error
\* is raised to the caller as a RuntimeError and the FSM keeps the state it
\* had: failure is not called and the heartbeat checker and the stop event
\* are left alone.
C35_RefusedRaisesAndStays ==
    [][/\ RefusedInLoop =>
             (RaisedToLoop /\ UNCHANGED <<fsmVars, h_steady, h_refail>>)
       /\ RefusedInThread =>
             (RaisedToFuture
                /\ UNCHANGED <<fsm_state, hb_checker, state_thread_evt,
                               h_steady, h_refail>>)]_vars

\* The task loop has logged the RuntimeError of a refused transition and the
\* FSM is in the steady state it was in, not in ERROR.
C35_Witness ==
    /\ m_pc = "get"
    /\ m_log = "RuntimeError"
    /\ m_task.callback = "transition"
    /\ ~FsmAllowed(fsm_state, m_task.args[1].event)
    /\ fsm_state \in SteadyStates \ {"ERROR"}
    /\ h_refail = FALSE

\* The replies among the frames sent: each ends with a frame sent without
\* SNDMORE.
Replies(frames) ==
    Cardinality({ i \in 1..Len(frames) : ~frames[i].more })

\* The pass for one request ends: the loop is back at get_message or the
\* thread has ended.
PassEnds == c_pc = "dispatch" /\ c_pc' = "get_message"

\* The handler left by an exception that is not an Exception (SystemExit).
HandlerExits == c_out'.kind = "raise" /\ ~IsException(c_out'.exc)

\* C36: for every request get_message returned, exactly one reply has been
\* sent when the pass ends, on every path: another verb, an unknown command,
\* a gate that denies or raises, a handler that raises an Exception or
\* returns nothing or a wrong shape, a reply that cannot be serialised.
C36_OneReplyPerRequest ==
    [][(PassEnds /\ ~HandlerExits) =>
          (Replies(c_frames') = 1 /\ c_thread' = "running")]_vars

\* The pass has called the handler of a command that has a gate.
GatedHandlerCalled ==
    /\ PassEnds
    /\ c_req.msg \in gates
    /\ c_handler' # NoHandler

\* C37: the handler of a command with a gate _X_is_allowed is called for a
\* request only if the gate returned true for that request; a gate that
\* raises while it evaluates the request never leads to the call.
C37_HandlerOnlyAfterGateTrue ==
    [][GatedHandlerCalled => c_gate' = "true"]_vars

\* Failure handling returns to its caller: _wrap_failure after fsm.failure in
\* handle_error (task loop, acquisition thread), fsm.failure after
\* _wrap_failure in the thread hook.
FailureHandlingReturns ==
    \/ m_pc \in {"wrap_failure", "fail_wait"} /\ m_pc' = "get"
    \/ a_pc \in {"wrap_failure", "fail_wait"} /\ a_pc' = "return"
    \/ x_pc = "failure" /\ x_pc' = "done"

\* The acquisition context, if there is one, has its stop event set.
ContextStopped == state_thread_evt # "None" => state_thread_evt = "set"

\* C38: whenever failure handling returns with the FSM in ERROR, the stop
\* event of the acquisition context, if one exists, is set, also when an
\* earlier step of the failure handling raised.
C38_StopEventSetAfterFailure ==
    [][(FailureHandlingReturns /\ fsm_state' = "ERROR") => ContextStopped']_vars

\* The listener with a callback registered for CONTROL from the start and no
\* register_request afterwards: OFFER and DEPART messages of three services
\* in any order, and the task loop taking the tasks.
NextAlive ==
    \/ \E msg \in CHIRPMessages : HasRoom(msg) /\ ListenerReceive(msg)
    \/ DiscoverCheck
    \/ DiscoverLookup
    \/ (l_cb # NoCallback => CanPutTask) /\ DiscoverPutAppend
    \/ DepartRemove
    \/ DepartLookup
    \/ CanPutTask /\ DepartPut
    \/ TaskLoop

SpecAlive == InitLoop /\ [][NextAlive]_vars

\* A callback task is put; the task put.
TaskPut == Len(task_queue') = Len(task_queue) + 1
LastPut == task_queue'[Len(task_queue')]

\* The listener looks at an OFFER of a service that has a callback and whose
\* identity has no task with alive = True put last: never offered, or
\* departed since.
FreshOffer ==
    /\ l_pc = "discover"
    /\ l_pc' # l_pc
    /\ chirp_callbacks[l_msg.serviceid] # NoCallback
    /\ Identity(ServiceOfMsg(l_msg)) \notin h_alive

\* C39: with a callback registered for the service throughout, the callback
\* tasks put for one identity (host_uuid, serviceid, port) alternate
\* alive = True, alive = False, beginning with True, whatever OFFER and DEPART
\* messages arrive; an OFFER handled after the DEPART of its identity is a
\* new discovery and its callback task is put again.
C39_CallbacksAlternate ==
    /\ [][TaskPut =>
            (LastPut.args.alive = (Identity(LastPut.args) \notin h_alive))]_vars
    /\ [][FreshOffer => (l_pc' = "disc_lookup")]_vars
    /\ [][(l_pc = "disc_put" /\ l_cb # NoCallback /\ l_pc' = "listen") =>
            (TaskPut /\ LastPut = Task(l_cb, ServiceOfMsg(l_msg)))]_vars

\* The tasks of a departure and of the discovery that followed it wait in
\* the queue, both for the same identity.
C39_Witness ==
    /\ Len(task_queue) = 2
    /\ ~task_queue[1].args.alive
    /\ task_queue[2].args.alive
    /\ Identity(task_queue[1].args) = Identity(task_queue[2].args)
    /\ Identity(task_queue[2].args) \in h_alive

\* ------------------------------------------------- the legacy satellite
\* The class Satellite of satellite.py: the command `transition` has the gate
\* _transition_is_allowed and puts the method named by the payload as a task;
\* the methods Initialize, Launch and Land fire the event themselves, inside
\* handle_error, and the FSM is in the target state when the call returns.
LegacyEvents == {"initialize", "launch", "land"}

MaxAccepted == 2

\* _transition_is_allowed: `getattr(self.fsm, transition_target) in
\* self.fsm.allowed_events`
TransitionIsAllowed(state, event) == FsmAllowed(state, event)

\* The receiver's pass for `transition <event>`: the gate is asked with the
\* FSM as it is now, then transition puts (callback, args[1:]).
LegacyRequest(event) ==
    /\ Len(task_queue) < MaxAccepted
    /\ TransitionIsAllowed(fsm_state, event)
    /\ task_queue' = Append(task_queue, TransitionTask(event))
    /\ UNCHANGED <<chirpButQueue, cscpVars, satVars>>

\* Launch: `self.hb_checker.start()`; Land: `self.hb_checker.stop()`
LegacyChecker(event, checker) ==
    CASE event = "launch" -> "running"
      [] event = "land" -> "stopped"
      [] OTHER -> checker

\* `callback(*args)` in the legacy run_satellite for Initialize, Launch or
\* Land: the event is fired first; refused, handle_error raises RuntimeError,
\* which the loop logs; the loop goes on.
LegacyTask ==
    /\ m_pc = "callback"
    /\ m_task.callback = "transition"
    /\ Event \in LegacyEvents
    /\ IF FsmAllowed(fsm_state, Event)
       THEN /\ fsm_state' = FsmComplete(FsmEvent(fsm_state, Event))
            /\ hb_checker' = LegacyChecker(Event, hb_checker)
            /\ m_log' = "none"
       ELSE /\ fsm_state' = HandleErrorNotAllowed(fsm_state)
            /\ m_log' = "RuntimeError"
            /\ UNCHANGED hb_checker
    /\ m_pc' = "get"
    /\ h_steady' = LastSteady(h_steady, fsm_state')
    /\ UNCHANGED <<state_thread_evt, state_thread_fut, mainButPc,
                   acqButSteady, chirpVars, cscpVars>>

NextLegacy ==
    \/ \E event \in LegacyEvents : LegacyRequest(event)
    \/ RunSatelliteGet
    \/ LegacyTask

SpecLegacy == InitChirp /\ [][NextLegacy]_vars

\* The task loop runs a transition task whose event the FSM does not allow
\* any more; its request had passed the gate.
StaleTask ==
    /\ m_pc = "callback"
    /\ m_task.callback = "transition"
    /\ ~FsmAllowed(fsm_state, Event)
    /\ m_pc' # m_pc

\* C40: in the legacy satellite a transition task that passed the gate when
\* it was requested and is refused when the task loop runs it leaves the FSM
\* in the state the earlier task reached, not in ERROR; the RuntimeError is
\* logged by the loop, and the tasks behind it are taken and run.
C40_StaleTaskOnlyLogged ==
    /\ [][StaleTask =>
            /\ fsm_state' = fsm_state
            /\ fsm_state' = h_steady
            /\ fsm_state' # "ERROR"
            /\ m_log' = "RuntimeError"
            /\ m_pc' = "get"
            /\ UNCHANGED <<task_queue, hb_checker>>]_vars
    /\ [][(m_log = "RuntimeError" /\ m_pc = "get" /\ m_pc' # m_pc) =>
            (m_pc' = "callback" /\ m_task' = Head(task_queue))]_vars
    /\ [][(m_pc = "callback" /\ m_pc' # m_pc
             /\ FsmAllowed(fsm_state, Event)) =>
            (fsm_state' = FsmComplete(FsmEvent(fsm_state, Event))
               /\ m_log' = "none")]_vars

\* The second of two launch requests accepted in INIT has been refused in
\* ORBIT and logged; a later task waits in the queue.
C40_Witness ==
    /\ m_pc = "get"
    /\ m_log = "RuntimeError"
    /\ m_task = TransitionTask("launch")
    /\ fsm_state = "ORBIT"
    /\ task_queue # <<>>

====
